---- MODULE Spec2Model ----
(***************************************************************************)
(* Resource handlers of the AWS provider:                                  *)
(*   - aws_vpc_endpoint_security_group_association (package ec2),           *)
(*   - aws_servicecatalog_provisioning_artifact (package servicecatalog),   *)
(*   - aws_api_gateway_method_response (package apigateway).                *)
(* Every remote call of a handler is one step, so that handlers of          *)
(* different resources interleave at the remote API and a handler can stop  *)
(* between any two of its calls.                                            *)
(***************************************************************************)
EXTENDS Integers, Sequences, FiniteSets, TLC

(***************************************************************************)
(* Part 1: VPC endpoint / security group association                       *)
(***************************************************************************)

\* The one VPC endpoint the modelled resources attach to.
VpcEndpointID == "vpce-1"

\* The default security group of the endpoint's VPC.
DefaultSG == "sg-default"

\* Security groups a resource may name in security_group_id.
SGs == {"sg-default", "sg-2", "sg-3"}

\* The resource instances (one Terraform resource address each).
Res == {"r1", "r2"}

\* d.Id() of a resource with no identifier.
NoId == <<>>

\* Error codes deleteVPCEndpointSecurityGroupAssociation treats as "already gone".
errCodeInvalidVPCEndpointIdNotFound == "InvalidVpcEndpointId.NotFound"
errCodeInvalidGroupNotFound == "InvalidGroup.NotFound"
errCodeInvalidParameter == "InvalidParameter"

\* Any other remote failure (throttling, internal error, a cancelled request).
errCodeOther == "InternalError"

\* The error tfresource.NotFound recognises, returned by the finders.
errNotFound == "NotFound"

VARIABLES
    epExists,    \* remote: the VPC endpoint exists
    groups,      \* remote: security groups associated with the endpoint
    cfg,         \* per resource: [sg, replace] (both ForceNew)
    pc,          \* per resource: position inside the running handler
    op,          \* per resource: the handler running or last run
    id,          \* per resource: d.Id()
    defSG,       \* per resource: local defaultSecurityGroupID
    epGroups,    \* per resource: local vpcEndpoint.Groups
    diags,       \* per resource: diagnostics returned by the handler
    calls,       \* per resource: ModifyVpcEndpoint calls of the running handler
    startGroups, \* per resource: remote associations when the handler started
    startExists, \* per resource: whether the endpoint existed when the handler started
    fault        \* per resource: a remote call failed for a reason other than absence

vpceVars == <<epExists, groups, cfg, pc, op, id, defSG, epGroups, diags, calls,
              startGroups, startExists, fault>>

VARIABLES
    paExists,   \* remote: the provisioning artifact exists
    paPc,       \* position inside the running handler
    paOp,       \* the handler running: create, update, read, delete
    paId,       \* d.Id()
    paNew,      \* d.IsNewResource()
    paChanged,  \* d.HasChanges(...) of the update step
    paClock,    \* time elapsed in the running retry window
    paLoop,     \* per remote call: how its RetryContext loop ended
    paFields,   \* the attributes that differ from the state (d.HasChange)
    paToken,    \* input.IdempotencyToken of the running create
    paCalls,    \* attempts of the retried calls made by the running handler
    paDiags     \* diagnostics returned by the handler

paVars == <<paExists, paPc, paOp, paId, paNew, paChanged, paToken, paFields, paClock, paLoop, paCalls, paDiags>>

VARIABLES
    mrMutex,    \* resourceMethodResponseMutex: the create holding it, or "free"
    mrExists,   \* remote, per method response: it exists
    mrPc,       \* per create: position inside resourceMethodResponseCreate
    mrId,       \* per resource: d.Id()
    mrClock,    \* per create: time elapsed in its retry window
    mrLoop,     \* per create: how the retry loop ended
    mrCalls,    \* per create: its PutMethodResponse attempts
    mrDiags,    \* per create: the diagnostics it returned
    mrBlocked,  \* per create: the mutex was held when it reached Lock()
    mrParent,   \* per resource: its rest_api_id/resource_id/http_method
    mrOp,       \* per resource: the handler that is running
    mrChanged,  \* per update: the attributes d.HasChange reports
    mrStatus,   \* per resource: d.Get("status_code")
    mrFailed    \* per resource: an update has returned an error since it was created or imported

mrVars == <<mrMutex, mrExists, mrPc, mrId, mrClock, mrLoop, mrCalls, mrDiags, mrBlocked,
            mrParent, mrOp, mrChanged, mrStatus, mrFailed>>

VARIABLES
    impId,      \* import: d.Id(), a string of characters
    impAttrs,   \* import: the attributes set with d.Set
    impPc,      \* import: "start" before the importer ran, "done" after
    impErr      \* import: the error the importer returned, or "nil"

impVars == <<impId, impAttrs, impPc, impErr>>

VARIABLES
    ltConfig,   \* list tags: ParentNotFoundErrCode and ParentNotFoundErrMsg of the template
    ltRemote,   \* list tags: what the remote ListTagsOp call returned, output and error
    ltPc,       \* list tags: "start" before the function ran, "done" after
    ltResult    \* list tags: the tags and the error the function returned

ltVars == <<ltConfig, ltRemote, ltPc, ltResult>>

\* What the handlers of one part leave alone.
notVpce == <<paVars, mrVars, impVars, ltVars>>
notPa == <<vpceVars, mrVars, impVars, ltVars>>
notMr == <<vpceVars, paVars, impVars, ltVars>>
notImp == <<vpceVars, paVars, mrVars, ltVars>>
notLt == <<vpceVars, paVars, mrVars, impVars>>

\* An error diagnostic: the operation named in the message, the identifier
\* the message carries ("" when none) and the underlying error.
ErrorDiag(operation, ident, cause) ==
    [severity |-> "Error", op |-> operation, id |-> ident, cause |-> cause]

HasError(ds) == \E i \in 1..Len(ds) : ds[i].severity = "Error"

VPCEndpointSecurityGroupAssociationCreateID(vpcEndpointID, securityGroupID) ==
    <<vpcEndpointID, securityGroupID>>

\* Responses of ModifyVpcEndpoint for a request that adds or removes sg.
\* An add names a group that may not exist; a removal is answered with
\* the codes line 195 takes for absence only when sg is not associated
\* (a group that is associated exists).
ModifyVpcEndpointResponses(kind, sg) ==
    IF ~epExists
    THEN {errCodeInvalidVPCEndpointIdNotFound, errCodeOther}
    ELSE IF kind = "add"
    THEN {"ok", errCodeInvalidGroupNotFound, errCodeOther}
    ELSE IF sg \in groups
    THEN {"ok", errCodeOther}
    ELSE {"ok", errCodeInvalidGroupNotFound, errCodeInvalidParameter, errCodeOther}

\* The remote effect of a ModifyVpcEndpoint request answered with resp.
ModifyVpcEndpointEffect(kind, sg, resp) ==
    IF resp # "ok" THEN groups
    ELSE IF kind = "add" THEN groups \cup {sg} ELSE groups \ {sg}

\* FindVPCEndpointByID: NotFound when the endpoint is gone, or another error.
FindVPCEndpointByIDResponses ==
    IF epExists THEN {"ok", errCodeOther} ELSE {errNotFound, errCodeOther}

\* FindVPCDefaultSecurityGroup: the VPC's default group, or an error.
FindVPCDefaultSecurityGroupResponses == {"ok", errCodeOther}

\* FindVPCEndpointSecurityGroupAssociationExists.
FindAssociationResponses(sg) ==
    IF epExists /\ sg \in groups THEN {"ok", errCodeOther} ELSE {errNotFound, errCodeOther}

\* The codes deleteVPCEndpointSecurityGroupAssociation swallows.
DeleteIgnoredCodes ==
    {errCodeInvalidVPCEndpointIdNotFound, errCodeInvalidGroupNotFound, errCodeInvalidParameter}

Return(r, ds) ==
    /\ pc' = [pc EXCEPT ![r] = "done"]
    /\ diags' = [diags EXCEPT ![r] = ds]

Goto(r, label) ==
    /\ pc' = [pc EXCEPT ![r] = label]
    /\ UNCHANGED diags

IsFault(resp) == resp = errCodeOther

NoteFault(r, resp) ==
    fault' = [fault EXCEPT ![r] = fault[r] \/ IsFault(resp)]

VpceInit ==
    /\ epExists \in BOOLEAN
    /\ groups \in IF epExists THEN SUBSET SGs ELSE {{}}
    /\ cfg \in [Res -> [sg : SGs, replace : BOOLEAN]]
    /\ pc = [r \in Res |-> "idle"]
    /\ op = [r \in Res |-> "none"]
    /\ id = [r \in Res |-> NoId]
    /\ defSG = [r \in Res |-> ""]
    /\ epGroups = [r \in Res |-> {}]
    /\ diags = [r \in Res |-> <<>>]
    /\ calls = [r \in Res |-> <<>>]
    /\ startGroups = [r \in Res |-> {}]
    /\ startExists = [r \in Res |-> FALSE]
    /\ fault = [r \in Res |-> FALSE]

\* A handler is entered: its locals and its record of calls start afresh.
Enter(r, operation, label) ==
    /\ pc[r] = "idle"
    /\ op' = [op EXCEPT ![r] = operation]
    /\ pc' = [pc EXCEPT ![r] = label]
    /\ diags' = [diags EXCEPT ![r] = <<>>]
    /\ calls' = [calls EXCEPT ![r] = <<>>]
    /\ defSG' = [defSG EXCEPT ![r] = ""]
    /\ epGroups' = [epGroups EXCEPT ![r] = {}]
    /\ startGroups' = [startGroups EXCEPT ![r] = groups]
    /\ startExists' = [startExists EXCEPT ![r] = epExists]
    /\ fault' = [fault EXCEPT ![r] = FALSE]
    /\ UNCHANGED notVpce
    /\ UNCHANGED <<epExists, groups, cfg, id>>

\* resourceVPCEndpointSecurityGroupAssociationCreate, lines 49-54.
CreateFirstStep(r) == IF cfg[r].replace THEN "c_findEp" ELSE "c_add"

CreateStart(r) ==
    /\ id[r] = NoId
    /\ Enter(r, "create", CreateFirstStep(r))

\* Lines 55-61: FindVPCEndpointByID.
CreateFindEndpoint(r) ==
    /\ pc[r] = "c_findEp"
    /\ \E resp \in FindVPCEndpointByIDResponses :
        /\ NoteFault(r, resp)
        /\ IF resp # "ok"
           THEN /\ Return(r, <<ErrorDiag("reading VPC Endpoint", VpcEndpointID, resp)>>)
                /\ UNCHANGED epGroups
           ELSE /\ Goto(r, "c_findSG")
                /\ epGroups' = [epGroups EXCEPT ![r] = groups]
    /\ UNCHANGED notVpce
    /\ UNCHANGED <<epExists, groups, cfg, op, id, defSG, calls, startGroups, startExists>>

\* A lookup that stops at the first group, whatever its id.
FoundAnyAssociation(r, defaultSecurityGroupID) ==
    \E g \in epGroups[r] : TRUE

\* Lines 75-86: is the default group among vpcEndpoint.Groups.
FoundDefaultAssociation(r, defaultSecurityGroupID) ==
    \E g \in epGroups[r] : g = defaultSecurityGroupID

\* The default association removed before the new one is added.
CreateRemoveFirst(r) == "c_remove"

\* Lines 87-89: after the validations comes the add.
CreateAfterValidation(r) == "c_add"

\* Lines 63-87: FindVPCDefaultSecurityGroup and the two validations.
CreateFindDefaultSG(r) ==
    /\ pc[r] = "c_findSG"
    /\ \E resp \in FindVPCDefaultSecurityGroupResponses :
        /\ NoteFault(r, resp)
        /\ IF resp # "ok"
           THEN /\ Return(r, <<ErrorDiag("reading default Security Group", VpcEndpointID, resp)>>)
                /\ UNCHANGED defSG
           ELSE /\ defSG' = [defSG EXCEPT ![r] = DefaultSG]
                /\ IF DefaultSG = cfg[r].sg
                   THEN Return(r, <<ErrorDiag("validating", cfg[r].sg, "is the default Security Group")>>)
                   ELSE IF ~FoundDefaultAssociation(r, DefaultSG)
                   THEN Return(r, <<ErrorDiag("validating", VpcEndpointID, "no association of default Security Group")>>)
                   ELSE Goto(r, CreateAfterValidation(r))
    /\ UNCHANGED notVpce
    /\ UNCHANGED <<epExists, groups, cfg, op, id, epGroups, calls, startGroups, startExists>>

\* One ModifyVpcEndpoint request of resource r, recorded in calls.
Modify(r, kind, sg, resp) ==
    /\ groups' = ModifyVpcEndpointEffect(kind, sg, resp)
    /\ calls' = [calls EXCEPT ![r] = Append(@, [kind |-> kind, sg |-> sg, resp |-> resp])]
    /\ NoteFault(r, resp)

\* The answer of FindVPCEndpointSecurityGroupAssociationExists, kept with
\* the calls the handler made.
NoteRead(r, resp) ==
    calls' = [calls EXCEPT ![r] = Append(@, [kind |-> "read", sg |-> cfg[r].sg, resp |-> resp])]

\* Line 97: what follows the add and d.SetId.
CreateAfterAdd(r) == IF cfg[r].replace THEN "c_remove" ELSE "c_read"

\* The add's error dropped: create carries on as if the add had succeeded.
CreateAddFailedIgnored(r, resp) ==
    Goto(r, CreateAfterAdd(r))

\* Lines 91-93: the add failed, create returns its error.
CreateAddFailed(r, resp) ==
    Return(r, <<ErrorDiag("creating", VPCEndpointSecurityGroupAssociationCreateID(VpcEndpointID, cfg[r].sg), resp)>>)

\* Lines 89-95: createVPCEndpointSecurityGroupAssociation (168-183), then d.SetId.
CreateAdd(r) ==
    /\ pc[r] = "c_add"
    /\ \E resp \in ModifyVpcEndpointResponses("add", cfg[r].sg) :
        /\ Modify(r, "add", cfg[r].sg, resp)
        /\ IF resp # "ok"
           THEN /\ CreateAddFailed(r, resp)
                /\ UNCHANGED id
           ELSE /\ id' = [id EXCEPT ![r] = VPCEndpointSecurityGroupAssociationCreateID(VpcEndpointID, cfg[r].sg)]
                /\ Goto(r, CreateAfterAdd(r))
    /\ UNCHANGED notVpce
    /\ UNCHANGED <<epExists, cfg, op, defSG, epGroups, startGroups, startExists>>

\* The removal's error dropped.
CreateRemoveFailedSilent(r, resp) == <<>>

\* Lines 99-101: the diagnostics create returns when removing the default fails.
CreateRemoveFailed(r, resp) ==
    <<ErrorDiag("deleting", VPCEndpointSecurityGroupAssociationCreateID(VpcEndpointID, defSG[r]), resp)>>

\* Lines 97-102: deleteVPCEndpointSecurityGroupAssociation (186-204) of the default group.
CreateRemoveDefault(r) ==
    /\ pc[r] = "c_remove"
    /\ \E resp \in ModifyVpcEndpointResponses("remove", defSG[r]) :
        /\ Modify(r, "remove", defSG[r], resp)
        /\ IF resp # "ok" /\ resp \notin DeleteIgnoredCodes
           THEN Return(r, CreateRemoveFailed(r, resp))
           ELSE Goto(r, "c_read")
    /\ UNCHANGED notVpce
    /\ UNCHANGED <<epExists, cfg, op, id, defSG, epGroups, startGroups, startExists>>

\* Line 104 and resourceVPCEndpointSecurityGroupAssociationRead (107-129) with
\* d.IsNewResource() true: NotFound is an error, the identifier stays.
CreateRead(r) ==
    /\ pc[r] = "c_read"
    /\ \E resp \in FindAssociationResponses(cfg[r].sg) :
        /\ NoteFault(r, resp)
        /\ NoteRead(r, resp)
        /\ IF resp # "ok"
           THEN Return(r, <<ErrorDiag("reading", <<VpcEndpointID, cfg[r].sg>>, resp)>>)
           ELSE Return(r, <<>>)
    /\ UNCHANGED notVpce
    /\ UNCHANGED <<epExists, groups, cfg, op, id, defSG, epGroups, startGroups, startExists>>

\* resourceVPCEndpointSecurityGroupAssociationRead of a resource in state.
ReadStart(r) ==
    /\ id[r] # NoId
    /\ Enter(r, "read", "r_find")

\* Lines 116-128 with d.IsNewResource() false.
ReadFind(r) ==
    /\ pc[r] = "r_find"
    /\ \E resp \in FindAssociationResponses(cfg[r].sg) :
        /\ NoteFault(r, resp)
        /\ NoteRead(r, resp)
        /\ IF resp = errNotFound
           THEN /\ id' = [id EXCEPT ![r] = NoId]
                /\ Return(r, <<>>)
           ELSE IF resp # "ok"
           THEN /\ Return(r, <<ErrorDiag("reading", <<VpcEndpointID, cfg[r].sg>>, resp)>>)
                /\ UNCHANGED id
           ELSE /\ Return(r, <<>>)
                /\ UNCHANGED id
    /\ UNCHANGED notVpce
    /\ UNCHANGED <<epExists, groups, cfg, op, defSG, epGroups, startGroups, startExists>>

\* resourceVPCEndpointSecurityGroupAssociationDelete, lines 135-139.
DeleteFirstStep(r) == IF cfg[r].replace THEN "d_findEp" ELSE "d_remove"

DeleteStart(r) ==
    /\ id[r] # NoId
    /\ Enter(r, "delete", DeleteFirstStep(r))

\* Lines 140-146.
DeleteFindEndpoint(r) ==
    /\ pc[r] = "d_findEp"
    /\ \E resp \in FindVPCEndpointByIDResponses :
        /\ NoteFault(r, resp)
        /\ IF resp # "ok"
           THEN Return(r, <<ErrorDiag("reading VPC Endpoint", VpcEndpointID, resp)>>)
           ELSE Goto(r, "d_findSG")
    /\ UNCHANGED notVpce
    /\ UNCHANGED <<epExists, groups, cfg, op, id, defSG, epGroups, calls, startGroups, startExists>>

\* Lines 148-152.
DeleteFindDefaultSG(r) ==
    /\ pc[r] = "d_findSG"
    /\ \E resp \in FindVPCDefaultSecurityGroupResponses :
        /\ NoteFault(r, resp)
        /\ IF resp # "ok"
           THEN /\ Return(r, <<ErrorDiag("reading default Security Group", VpcEndpointID, resp)>>)
                /\ UNCHANGED defSG
           ELSE /\ defSG' = [defSG EXCEPT ![r] = DefaultSG]
                /\ Goto(r, "d_add")
    /\ UNCHANGED notVpce
    /\ UNCHANGED <<epExists, groups, cfg, op, id, epGroups, calls, startGroups, startExists>>

\* The restore's error dropped: delete carries on to the removal.
DeleteAfterRestoreFailedIgnored(r, resp) ==
    Goto(r, "d_remove")

\* Lines 157-159: what delete does when adding the default group back fails.
DeleteAfterRestoreFailed(r, resp) ==
    Return(r, <<ErrorDiag("creating", VPCEndpointSecurityGroupAssociationCreateID(VpcEndpointID, defSG[r]), resp)>>)

\* The managed group added once more instead of the default one.
RestoredGroupManaged(r) == cfg[r].sg

\* Line 155: the group delete adds back, defaultSecurityGroup.GroupId.
RestoredGroup(r) == defSG[r]

\* Lines 154-159: add back the default association.
DeleteRestoreDefault(r) ==
    /\ pc[r] = "d_add"
    /\ \E resp \in ModifyVpcEndpointResponses("add", RestoredGroup(r)) :
        /\ Modify(r, "add", RestoredGroup(r), resp)
        /\ IF resp # "ok"
           THEN DeleteAfterRestoreFailed(r, resp)
           ELSE Goto(r, "d_remove")
    /\ UNCHANGED notVpce
    /\ UNCHANGED <<epExists, cfg, op, id, defSG, epGroups, startGroups, startExists>>

\* Lines 162-165: remove the managed association.
DeleteRemove(r) ==
    /\ pc[r] = "d_remove"
    /\ \E resp \in ModifyVpcEndpointResponses("remove", cfg[r].sg) :
        /\ Modify(r, "remove", cfg[r].sg, resp)
        /\ IF resp # "ok" /\ resp \notin DeleteIgnoredCodes
           THEN Return(r, <<ErrorDiag("deleting", VPCEndpointSecurityGroupAssociationCreateID(VpcEndpointID, cfg[r].sg), resp)>>)
           ELSE Return(r, <<>>)
    /\ UNCHANGED notVpce
    /\ UNCHANGED <<epExists, cfg, op, id, defSG, epGroups, startGroups, startExists>>

\* The handler has returned to the SDK: after a delete without error the
\* resource leaves the state, otherwise the identifier is kept.  The
\* handler's locals and diagnostics are gone with its frame.
Finish(r) ==
    /\ pc[r] = "done"
    /\ pc' = [pc EXCEPT ![r] = "idle"]
    /\ id' = [id EXCEPT ![r] = IF op[r] = "delete" /\ ~HasError(diags[r]) THEN NoId ELSE @]
    /\ op' = [op EXCEPT ![r] = "none"]
    /\ diags' = [diags EXCEPT ![r] = <<>>]
    /\ calls' = [calls EXCEPT ![r] = <<>>]
    /\ defSG' = [defSG EXCEPT ![r] = ""]
    /\ epGroups' = [epGroups EXCEPT ![r] = {}]
    /\ startGroups' = [startGroups EXCEPT ![r] = {}]
    /\ startExists' = [startExists EXCEPT ![r] = FALSE]
    /\ fault' = [fault EXCEPT ![r] = FALSE]
    /\ UNCHANGED notVpce
    /\ UNCHANGED <<epExists, groups, cfg>>

\* The endpoint is deleted outside Terraform.
RemoteDeleteEndpoint ==
    /\ epExists
    /\ epExists' = FALSE
    /\ groups' = {}
    /\ UNCHANGED notVpce
    /\ UNCHANGED <<cfg, pc, op, id, defSG, epGroups, diags, calls,
                   startGroups, startExists, fault>>

VpceStep(r) ==
    \/ CreateStart(r)
    \/ CreateFindEndpoint(r)
    \/ CreateFindDefaultSG(r)
    \/ CreateAdd(r)
    \/ CreateRemoveDefault(r)
    \/ CreateRead(r)
    \/ ReadStart(r)
    \/ ReadFind(r)
    \/ DeleteStart(r)
    \/ DeleteFindEndpoint(r)
    \/ DeleteFindDefaultSG(r)
    \/ DeleteRestoreDefault(r)
    \/ DeleteRemove(r)
    \/ Finish(r)

\* Handlers of different resources run concurrently (Terraform applies
\* independent resources in parallel); nothing serialises them.
VpceNext ==
    \/ \E r \in Res : VpceStep(r)
    \/ RemoteDeleteEndpoint

\* One handler at a time, and nobody else touches the endpoint.
OthersIdle(r) == \A q \in Res \ {r} : pc[q] = "idle"

VpceSeqNext ==
    \E r \in Res :
        \/ OthersIdle(r) /\ CreateStart(r)
        \/ OthersIdle(r) /\ CreateFindEndpoint(r)
        \/ OthersIdle(r) /\ CreateFindDefaultSG(r)
        \/ OthersIdle(r) /\ CreateAdd(r)
        \/ OthersIdle(r) /\ CreateRemoveDefault(r)
        \/ OthersIdle(r) /\ CreateRead(r)
        \/ OthersIdle(r) /\ ReadStart(r)
        \/ OthersIdle(r) /\ ReadFind(r)
        \/ OthersIdle(r) /\ DeleteStart(r)
        \/ OthersIdle(r) /\ DeleteFindEndpoint(r)
        \/ OthersIdle(r) /\ DeleteFindDefaultSG(r)
        \/ OthersIdle(r) /\ DeleteRestoreDefault(r)
        \/ OthersIdle(r) /\ DeleteRemove(r)
        \/ OthersIdle(r) /\ Finish(r)

(***************************************************************************)
(* Part 2: Service Catalog provisioning artifact                           *)
(***************************************************************************)

\* The retry window (d.Timeout of the operation) in ticks of the clock.
MaxElapsed == 3

\* A remote answer: the error's code and message; no error has an empty code.
Resp(code, msg) == [code |-> code, msg |-> msg]

NoErr == Resp("", "")

\* A nil error with an output that holds no ProvisioningArtifactDetail.
EmptyOutput == Resp("", "empty response")

ErrCodeInvalidParametersException == "InvalidParametersException"
ErrCodeResourceNotFoundException == "ResourceNotFoundException"

\* The eventual-consistency error the retry functions wait out.
ProfileDoesNotExist == Resp(ErrCodeInvalidParametersException, "profile does not exist")

\* The same code with another message, and another code with the same message.
InvalidParameters == Resp(ErrCodeInvalidParametersException, "invalid name")
ProfileNotFound == Resp(ErrCodeResourceNotFoundException, "profile does not exist")

\* What RetryContext returns when the window closes, and when ctx is cancelled.
TimeoutError == Resp("TimeoutError", "")
ContextCanceled == Resp("context canceled", "")

IsErr(resp) == resp.code # ""

\* tfawserr.ErrMessageContains(err, code, message)
ErrMessageContains(err, code, message) == err.code = code /\ err.msg = message

\* tfawserr.ErrCodeEquals(err, code)
ErrCodeEquals(err, code) == err.code = code

\* tfresource.TimedOut(err)
TimedOut(err) == err.code = "TimeoutError"

PaApis == {"CreateProvisioningArtifact", "UpdateProvisioningArtifact"}

NoPaId == <<>>

ProvisioningArtifactID(artifactID, productID) == <<artifactID, productID>>

\* Line 219: the attributes update looks at.
PaUpdatable == {"accept_language", "active", "description", "guidance", "name", "product_id"}

\* The sets of changed attributes update is tried with.
PaChangeSets == {{}, {"name"}, {"active"}, {"description", "name"}}

\* In create nothing is in the state yet: product_id and the attributes
\* with a default differ from it.
PaCreateFields == {"accept_language", "active", "guidance", "product_id"}

HasChanges(fields) == fields \cap PaUpdatable # {}

\* Lines 226-246: Active is always set, accept_language and guidance have
\* defaults so d.GetOk finds them, description and name are sent when
\* configured (taken here to be the case only when they changed).
UpdateInputFields(fields) ==
    {"active", "accept_language", "guidance"} \cup (fields \cap {"description", "name"})

\* No idempotency token, and the first resource.UniqueId() of a call.
NoToken == 0
UniqueId == 1

PaInit ==
    /\ paExists = FALSE
    /\ paPc = "idle"
    /\ paOp = "none"
    /\ paId = NoPaId
    /\ paNew = FALSE
    /\ paChanged = FALSE
    /\ paToken = NoToken
    /\ paFields = {}
    /\ paClock = 0
    /\ paLoop = [a \in PaApis |-> "none"]
    /\ paCalls = <<>>
    /\ paDiags = <<>>

\* RetryContext: an attempt is made only while the window is open.
RetryWindowOpen(clock) == clock < MaxElapsed

\* RetryContext: the backoff sleeps some time, at most until the deadline.
SleepChoices(clock) == 1..(MaxElapsed - clock)

\* Every error taken for retryable.
RetryClassAllRetryable(err) ==
    IF IsErr(err) THEN "retryable" ELSE "success"

\* Lines 135-143 and 251-259: the RetryFunc's classification of the call's error.
RetryClass(err) ==
    IF ErrMessageContains(err, ErrCodeInvalidParametersException, "profile does not exist")
    THEN "retryable"
    ELSE IF IsErr(err) THEN "nonretryable" ELSE "success"

\* Answers of CreateProvisioningArtifact and UpdateProvisioningArtifact.
PaCallResponses(api) ==
    {NoErr, ProfileDoesNotExist, InvalidParameters, ProfileNotFound}
    \cup (IF api = "CreateProvisioningArtifact" THEN {EmptyOutput} ELSE {})

PaCallPc(api) == IF api = "CreateProvisioningArtifact" THEN "c_call" ELSE "u_call"
PaFinalPc(api) == IF api = "CreateProvisioningArtifact" THEN "c_final" ELSE "u_final"

\* The message of the diagnostic a failed call is reported with (lines 151, 267).
\* The message without the operation.
PaErrorOpMissing(api) == ""

PaErrorOp(api) == IF api = "CreateProvisioningArtifact" THEN "creating" ELSE "updating"

\* The identifier that message carries: none for create (line 151), d.Id() for update (267).
PaErrorId(api) == IF api = "CreateProvisioningArtifact" THEN "" ELSE paId

PaReturn(ds) ==
    /\ paPc' = "done"
    /\ paDiags' = ds

\* A token drawn anew for every attempt.
AttemptTokenFresh(api) ==
    IF api = "CreateProvisioningArtifact" THEN UniqueId + Len(paCalls) ELSE NoToken

\* Lines 119-123 and 131: every attempt passes the one input built before
\* the loop.
AttemptToken(api) ==
    IF api = "CreateProvisioningArtifact" THEN paToken ELSE NoToken

\* The attributes the request of the call carries.
RequestFields(api) ==
    IF api = "UpdateProvisioningArtifact" THEN UpdateInputFields(paFields) ELSE {}

PaLog(api, phase, resp) ==
    paCalls' = Append(paCalls, [api |-> api, phase |-> phase, at |-> paClock, resp |-> resp,
                                token |-> AttemptToken(api),
                                fields |-> RequestFields(api)])

\* The handler returns success without the read.
PaSkipRead == PaReturn(<<>>)

\* Lines 166-190: resourceProvisioningArtifactRead comes last in create and update.
PaGotoRead ==
    /\ paPc' = "r_wait"
    /\ UNCHANGED paDiags

\* Lines 219 and 248: update calls the API only when a field changed.
PaGotoUpdate ==
    /\ paPc' = IF paChanged THEN "u_call" ELSE "r_wait"
    /\ paClock' = 0
    /\ UNCHANGED paDiags

\* Lines 150-163 and 266-271: what follows the call once its error is final.
PaAfterCall(api, err) ==
    IF IsErr(err)
    THEN /\ PaReturn(<<ErrorDiag(PaErrorOp(api), PaErrorId(api), err)>>)
         /\ UNCHANGED <<paId, paClock>>
    ELSE IF api = "UpdateProvisioningArtifact"
    THEN /\ PaGotoRead
         /\ UNCHANGED <<paId, paClock>>
    ELSE IF err = EmptyOutput
    THEN /\ PaReturn(<<ErrorDiag(PaErrorOp(api), PaErrorId(api), err)>>)
         /\ UNCHANGED <<paId, paClock>>
    ELSE /\ paId' = ProvisioningArtifactID("pa-1", "prod-1")
         /\ PaGotoUpdate

\* The timeout returned as it is, with no further attempt.
PaAfterLoopNoFinal(api, err, now) ==
    /\ PaAfterCall(api, err)
    /\ UNCHANGED paExists

\* Lines 146-148 and 262-264: a timed-out loop is followed by a direct attempt.
PaAfterLoop(api, err, now) ==
    IF TimedOut(err)
    THEN /\ paPc' = PaFinalPc(api)
         /\ paClock' = now
         /\ UNCHANGED <<paDiags, paId, paExists>>
    ELSE /\ PaAfterCall(api, err)
         /\ UNCHANGED paExists

\* The remote effect of an attempt.
PaCallEffect(api, resp) ==
    IF api = "CreateProvisioningArtifact" /\ ~IsErr(resp) THEN TRUE ELSE paExists

\* One turn of RetryContext's loop around the call (lines 130-144, 248-260):
\* the attempt, its classification and, for a retryable error, the backoff.
PaRetryAttempt(api) ==
    /\ paPc = PaCallPc(api)
    /\ RetryWindowOpen(paClock)
    /\ \E resp \in PaCallResponses(api) :
        /\ PaLog(api, "retry", resp)
        /\ IF RetryClass(resp) = "retryable"
           THEN \E d \in SleepChoices(paClock) :
                   IF RetryWindowOpen(paClock + d)
                   THEN /\ paClock' = paClock + d
                        /\ paExists' = PaCallEffect(api, resp)
                        /\ UNCHANGED <<paPc, paDiags, paId, paLoop>>
                   ELSE /\ paLoop' = [paLoop EXCEPT ![api] = "timedout"]
                        /\ PaAfterLoop(api, TimeoutError, paClock + d)
           ELSE /\ paLoop' = [paLoop EXCEPT ![api] = RetryClass(resp)]
                /\ paExists' = PaCallEffect(api, resp)
                /\ PaAfterCall(api, resp)
    /\ UNCHANGED notPa
    /\ UNCHANGED <<paOp, paNew, paChanged, paToken, paFields>>

\* The final attempt repeated for as long as its error is retryable.
PaAfterFinalRepeat(api, resp) ==
    IF RetryClass(resp) = "retryable"
    THEN UNCHANGED <<paPc, paDiags, paId, paClock>>
    ELSE PaAfterCall(api, resp)

\* Lines 150 and 266: the direct attempt's error is the call's error.
PaAfterFinal(api, resp) == PaAfterCall(api, resp)

\* Lines 147 and 263: the direct attempt after the loop timed out.
PaFinalAttempt(api) ==
    /\ paPc = PaFinalPc(api)
    /\ \E resp \in PaCallResponses(api) :
        /\ PaLog(api, "final", resp)
        /\ paExists' = PaCallEffect(api, resp)
        /\ PaAfterFinal(api, resp)
    /\ UNCHANGED notPa
    /\ UNCHANGED <<paOp, paNew, paChanged, paToken, paFields, paLoop>>

\* ctx is cancelled while RetryContext waits: the loop returns ctx's error.
PaCancel(api) ==
    /\ paPc = PaCallPc(api)
    /\ paLoop' = [paLoop EXCEPT ![api] = "aborted"]
    /\ PaAfterLoop(api, ContextCanceled, paClock)
    /\ UNCHANGED notPa
    /\ UNCHANGED <<paOp, paNew, paChanged, paToken, paFields, paCalls>>

PaEnter(operation, label) ==
    /\ paPc = "idle"
    /\ paOp' = operation
    /\ paPc' = label
    /\ paClock' = 0
    /\ paLoop' = [a \in PaApis |-> "none"]
    /\ paCalls' = <<>>
    /\ paDiags' = <<>>
    /\ UNCHANGED notPa
    /\ UNCHANGED <<paExists, paId>>

\* resourceProvisioningArtifactCreate, lines 107-128: product_id is new, so
\* the update step that follows finds changes.
PaCreateStart ==
    /\ paId = NoPaId
    /\ PaEnter("create", "c_call")
    /\ paNew' = TRUE
    /\ paChanged' = TRUE
    /\ paToken' = UniqueId
    /\ paFields' = PaCreateFields

\* resourceProvisioningArtifactUpdate, lines 215-219.
PaUpdateStart ==
    /\ paId # NoPaId
    /\ \E fields \in PaChangeSets :
        /\ paFields' = fields
        /\ paChanged' = HasChanges(fields)
        /\ PaEnter("update", IF HasChanges(fields) THEN "u_call" ELSE "r_wait")
    /\ paNew' = FALSE
    /\ paToken' = NoToken

\* resourceProvisioningArtifactRead, lines 166-174.
PaReadStart ==
    /\ paId # NoPaId
    /\ PaEnter("read", "r_wait")
    /\ paNew' = FALSE
    /\ paChanged' = FALSE
    /\ paToken' = NoToken
    /\ paFields' = {}

\* WaitProvisioningArtifactReady.
WaitReadyResponses ==
    IF paExists THEN {NoErr, EmptyOutput, TimeoutError}
    ELSE {Resp(ErrCodeResourceNotFoundException, ""), TimeoutError}

\* Absence clears the identifier of a new resource as well.
PaReadNotFoundEvenIfNew(err) == ErrCodeEquals(err, ErrCodeResourceNotFoundException)

\* Every error of the wait taken for absence.
PaReadAnyErrorClears(err) == ~paNew /\ IsErr(err)

\* Line 178.
PaReadNotFound(err) ==
    ~paNew /\ ErrCodeEquals(err, ErrCodeResourceNotFoundException)

\* Lines 176-212.
PaRead ==
    /\ paPc = "r_wait"
    /\ \E resp \in WaitReadyResponses :
        /\ PaLog("WaitProvisioningArtifactReady", "wait", resp)
        /\ IF PaReadNotFound(resp)
           THEN /\ paId' = NoPaId
                /\ PaReturn(<<>>)
           ELSE IF IsErr(resp)
           THEN /\ PaReturn(<<ErrorDiag("describing", paId, resp)>>)
                /\ UNCHANGED paId
           ELSE IF resp = EmptyOutput
           THEN /\ PaReturn(<<ErrorDiag("getting", paId, resp)>>)
                /\ UNCHANGED paId
           ELSE /\ PaReturn(<<>>)
                /\ UNCHANGED paId
    /\ UNCHANGED notPa
    /\ UNCHANGED <<paExists, paOp, paNew, paChanged, paToken, paFields, paClock, paLoop>>

\* resourceProvisioningArtifactDelete, lines 274-291.
PaDeleteStart ==
    /\ paId # NoPaId
    /\ PaEnter("delete", "d_call")
    /\ paNew' = FALSE
    /\ paChanged' = FALSE
    /\ paToken' = NoToken
    /\ paFields' = {}

\* Answers of DeleteProvisioningArtifact.
PaDeleteResponses ==
    IF paExists THEN {NoErr, InvalidParameters}
    ELSE {Resp(ErrCodeResourceNotFoundException, ""), InvalidParameters}

\* Absence treated like any other error of the delete call.
DeleteAbsenceIsError(resp) == FALSE

\* Lines 295-297: an artifact already gone counts as deleted.
DeleteAlreadyAbsent(resp) == ErrCodeEquals(resp, ErrCodeResourceNotFoundException)

\* Lines 293-301.
PaDeleteCall ==
    /\ paPc = "d_call"
    /\ \E resp \in PaDeleteResponses :
        /\ PaLog("DeleteProvisioningArtifact", "delete", resp)
        /\ paExists' = IF IsErr(resp) THEN paExists ELSE FALSE
        /\ IF DeleteAlreadyAbsent(resp)
           THEN PaReturn(<<>>)
           ELSE IF IsErr(resp)
           THEN PaReturn(<<ErrorDiag("deleting", paId, resp)>>)
           ELSE /\ paPc' = "d_wait"
                /\ UNCHANGED paDiags
    /\ UNCHANGED notPa
    /\ UNCHANGED <<paOp, paId, paNew, paChanged, paToken, paFields, paClock, paLoop>>

\* Lines 303-307: WaitProvisioningArtifactDeleted.
PaDeleteWait ==
    /\ paPc = "d_wait"
    /\ \E resp \in {NoErr, TimeoutError} :
        /\ PaLog("WaitProvisioningArtifactDeleted", "wait", resp)
        /\ IF IsErr(resp)
           THEN PaReturn(<<ErrorDiag("waiting for delete", paId, resp)>>)
           ELSE PaReturn(<<>>)
    /\ UNCHANGED notPa
    /\ UNCHANGED <<paExists, paOp, paId, paNew, paChanged, paToken, paFields, paClock, paLoop>>

\* The handler has returned to the SDK.
PaFinish ==
    /\ paPc = "done"
    /\ paPc' = "idle"
    /\ paId' = IF paOp = "delete" /\ ~HasError(paDiags) THEN NoPaId ELSE paId
    /\ paOp' = "none"
    /\ paNew' = FALSE
    /\ paChanged' = FALSE
    /\ paToken' = NoToken
    /\ paFields' = {}
    /\ paClock' = 0
    /\ paLoop' = [a \in PaApis |-> "none"]
    /\ paCalls' = <<>>
    /\ paDiags' = <<>>
    /\ UNCHANGED notPa
    /\ UNCHANGED paExists

\* The artifact is deleted outside Terraform.
PaRemoteDelete ==
    /\ paExists
    /\ paExists' = FALSE
    /\ UNCHANGED notPa
    /\ UNCHANGED <<paPc, paOp, paId, paNew, paChanged, paToken, paFields, paClock, paLoop, paCalls, paDiags>>

PaNext ==
    \/ PaCreateStart
    \/ PaUpdateStart
    \/ PaReadStart
    \/ PaDeleteStart
    \/ \E api \in PaApis : PaRetryAttempt(api)
    \/ \E api \in PaApis : PaFinalAttempt(api)
    \/ \E api \in PaApis : PaCancel(api)
    \/ PaRead
    \/ PaDeleteCall
    \/ PaDeleteWait
    \/ PaFinish
    \/ PaRemoteDelete

(***************************************************************************)
(* Part 3: API Gateway method response                                     *)
(***************************************************************************)

\* The method responses created concurrently; their status codes differ,
\* rest_api_id, resource_id and http_method may or may not.
MrProcs == {"p1", "p2"}

ErrCodeConflictException == "ConflictException"
ErrCodeNotFoundException == "NotFoundException"

Conflict == Resp(ErrCodeConflictException, "")
MethodNotFound == Resp(ErrCodeNotFoundException, "")
TooManyRequests == Resp("TooManyRequestsException", "")

\* The methods (rest_api_id, resource_id, http_method) method responses hang on.
MrParents == {"method-a", "method-b"}

\* The attributes of the schema without ForceNew (lines 69-84).
MrUpdatable == {"status_code", "response_models", "response_parameters"}

NoMrId == <<>>

\* The status codes the configuration of each method response takes over
\* time; status_code has no ForceNew (lines 69-72).
MrStatusCodes ==
    [p1 |-> {<<"2", "0", "0">>, <<"2", "0", "1">>}, p2 |-> {<<"4", "0", "4">>}]

\* rest_api_id, resource_id and http_method of the two methods.
MrParentAttrs ==
    [rest_api_id |-> [q \in MrParents |-> <<"a">>],
     resource_id |-> [q \in MrParents |-> <<"b">>],
     http_method |-> [q \in MrParents |-> IF q = "method-a" THEN <<"a">> ELSE <<"b">>]]

RECURSIVE Sprintf(_, _)
\* fmt.Sprintf for a format of literal pieces and %s verbs: each verb is
\* replaced by the next argument, the literal pieces are copied.
Sprintf(format, args) ==
    IF format = <<>> THEN <<>>
    ELSE IF Head(format) = "%s"
    THEN Head(args) \o Sprintf(Tail(format), Tail(args))
    ELSE <<Head(format)>> \o Sprintf(Tail(format), args)

\* Line 127: "agmr-%s-%s-%s-%s".
CreateIDFormat == <<"agmr-", "%s", "-", "%s", "-", "%s", "-", "%s">>

\* Line 127: the identifier create builds from rest_api_id, resource_id,
\* http_method and status_code, in this order.
CreateID(attrs) ==
    Sprintf(CreateIDFormat,
            <<attrs.rest_api_id, attrs.resource_id, attrs.http_method, attrs.status_code>>)

\* d.Get of the four attributes the identifier is built from.
MrAttrs(p) ==
    [rest_api_id |-> MrParentAttrs.rest_api_id[mrParent[p]],
     resource_id |-> MrParentAttrs.resource_id[mrParent[p]],
     http_method |-> MrParentAttrs.http_method[mrParent[p]],
     status_code |-> mrStatus[p]]

\* Line 127: d.SetId(fmt.Sprintf("agmr-%s-%s-%s-%s", ...)).
MethodResponseID(p) == CreateID(MrAttrs(p))

\* Line 44: "agmr-%s-%s-%s-%s".
ImportIDFormat == <<"agmr-", "%s", "-", "%s", "-", "%s", "-", "%s">>

\* The identifier built with resource_id and http_method exchanged.
ImportIDExchanged(restApiID, resourceID, httpMethod, statusCode) ==
    Sprintf(ImportIDFormat, <<restApiID, httpMethod, resourceID, statusCode>>)

\* Line 44: the identifier the importer sets.
ImportID(restApiID, resourceID, httpMethod, statusCode) ==
    Sprintf(ImportIDFormat, <<restApiID, resourceID, httpMethod, statusCode>>)

MrInit ==
    /\ mrMutex = "free"
    /\ mrExists = [p \in MrProcs |-> FALSE]
    /\ mrPc = [p \in MrProcs |-> "idle"]
    /\ mrId = [p \in MrProcs |-> NoMrId]
    /\ mrClock = [p \in MrProcs |-> 0]
    /\ mrLoop = [p \in MrProcs |-> "none"]
    /\ mrCalls = [p \in MrProcs |-> <<>>]
    /\ mrDiags = [p \in MrProcs |-> <<>>]
    /\ mrBlocked = [p \in MrProcs |-> FALSE]
    /\ mrParent \in [MrProcs -> MrParents]
    /\ mrParent["p1"] = "method-a"
    /\ mrOp = [p \in MrProcs |-> "none"]
    /\ mrChanged = [p \in MrProcs |-> {}]
    /\ mrStatus = [p1 |-> <<"2", "0", "0">>, p2 |-> <<"4", "0", "4">>]
    /\ mrFailed = [p \in MrProcs |-> FALSE]

\* Lines 89-109: the maps are built, then the handler reaches Lock().
MrCreateStart(p) ==
    /\ mrPc[p] = "idle"
    /\ mrId[p] = NoMrId
    /\ mrPc' = [mrPc EXCEPT ![p] = "lock"]
    /\ mrBlocked' = [mrBlocked EXCEPT ![p] = mrMutex # "free"]
    /\ mrClock' = [mrClock EXCEPT ![p] = 0]
    /\ mrLoop' = [mrLoop EXCEPT ![p] = "none"]
    /\ mrCalls' = [mrCalls EXCEPT ![p] = <<>>]
    /\ mrDiags' = [mrDiags EXCEPT ![p] = <<>>]
    /\ mrOp' = [mrOp EXCEPT ![p] = "create"]
    /\ UNCHANGED notMr
    /\ mrFailed' = [mrFailed EXCEPT ![p] = FALSE]
    /\ UNCHANGED <<mrMutex, mrExists, mrId, mrParent, mrChanged, mrStatus>>

\* A mutex per parent: one held for another method does not block.
MutexAvailablePerParent(p) ==
    IF mrMutex = "free" THEN TRUE ELSE mrParent[mrMutex] # mrParent[p]

\* Line 22: one mutex for all method responses.
MutexAvailable(p) == mrMutex = "free"

\* Line 109: resourceMethodResponseMutex.Lock() returns once the mutex is free.
MrLock(p) ==
    /\ mrPc[p] = "lock"
    /\ MutexAvailable(p)
    /\ mrMutex' = p
    /\ mrPc' = [mrPc EXCEPT ![p] = "put"]
    /\ UNCHANGED notMr
    /\ UNCHANGED <<mrExists, mrId, mrClock, mrLoop, mrCalls, mrDiags, mrBlocked,
                   mrParent, mrOp, mrChanged, mrStatus, mrFailed>>

\* The mutex kept when create returns an error.
MutexKeptOnError(p, err) == IF IsErr(err) THEN mrMutex ELSE "free"

\* Line 110: the deferred Unlock() runs on every return.
MutexAfterReturn(p, err) == "free"

\* Lines 112 and 121: RetryWhenAWSErrCodeEquals retries ConflictException only.
MrRetryClass(err) ==
    IF ErrCodeEquals(err, ErrCodeConflictException) THEN "retryable"
    ELSE IF IsErr(err) THEN "nonretryable" ELSE "success"

\* Answers of PutMethodResponse.
PutMethodResponseResponses == {NoErr, Conflict, MethodNotFound}

MrLog(p, phase, resp) ==
    mrCalls' = [mrCalls EXCEPT ![p] = Append(@, [phase |-> phase, at |-> mrClock[p], resp |-> resp])]

\* Lines 123-131: the error is returned, or the identifier is set; the
\* deferred Unlock() runs.
MrReturn(p, err) ==
    /\ mrPc' = [mrPc EXCEPT ![p] = "done"]
    /\ mrMutex' = MutexAfterReturn(p, err)
    /\ IF IsErr(err)
       THEN /\ mrDiags' = [mrDiags EXCEPT ![p] = <<ErrorDiag("creating", "", err)>>]
            /\ UNCHANGED mrId
       ELSE /\ mrId' = [mrId EXCEPT ![p] = MethodResponseID(p)]
            /\ UNCHANGED mrDiags

\* RetryWhenAWSErrCodeEquals: a timed-out loop is followed by one direct call.
MrAfterLoop(p, err, now) ==
    IF TimedOut(err)
    THEN /\ mrPc' = [mrPc EXCEPT ![p] = "put_final"]
         /\ mrClock' = [mrClock EXCEPT ![p] = now]
         /\ UNCHANGED <<mrMutex, mrDiags, mrId>>
    ELSE /\ MrReturn(p, err)
         /\ UNCHANGED mrClock

\* One turn of the retry loop around PutMethodResponse (lines 112-121).
MrPutAttempt(p) ==
    /\ mrPc[p] = "put"
    /\ RetryWindowOpen(mrClock[p])
    /\ \E resp \in PutMethodResponseResponses :
        /\ MrLog(p, "retry", resp)
        /\ mrExists' = [mrExists EXCEPT ![p] = @ \/ ~IsErr(resp)]
        /\ IF MrRetryClass(resp) = "retryable"
           THEN \E d \in SleepChoices(mrClock[p]) :
                   IF RetryWindowOpen(mrClock[p] + d)
                   THEN /\ mrClock' = [mrClock EXCEPT ![p] = @ + d]
                        /\ UNCHANGED <<mrPc, mrMutex, mrDiags, mrId, mrLoop>>
                   ELSE /\ mrLoop' = [mrLoop EXCEPT ![p] = "timedout"]
                        /\ MrAfterLoop(p, TimeoutError, mrClock[p] + d)
           ELSE /\ mrLoop' = [mrLoop EXCEPT ![p] = MrRetryClass(resp)]
                /\ MrAfterLoop(p, resp, mrClock[p])
    /\ UNCHANGED notMr
    /\ UNCHANGED <<mrBlocked, mrParent, mrOp, mrChanged, mrStatus, mrFailed>>

\* The direct call after the loop timed out.
MrPutFinal(p) ==
    /\ mrPc[p] = "put_final"
    /\ \E resp \in PutMethodResponseResponses :
        /\ MrLog(p, "final", resp)
        /\ mrExists' = [mrExists EXCEPT ![p] = @ \/ ~IsErr(resp)]
        /\ MrReturn(p, resp)
    /\ UNCHANGED notMr
    /\ UNCHANGED <<mrClock, mrLoop, mrBlocked, mrParent, mrOp, mrChanged, mrStatus, mrFailed>>

\* ctx is cancelled while the loop waits: it returns ctx's error.
MrCancel(p) ==
    /\ mrPc[p] = "put"
    /\ mrLoop' = [mrLoop EXCEPT ![p] = "aborted"]
    /\ MrAfterLoop(p, ContextCanceled, mrClock[p])
    /\ UNCHANGED notMr
    /\ UNCHANGED <<mrExists, mrCalls, mrBlocked, mrParent, mrOp, mrChanged, mrStatus, mrFailed>>

\* The handler has returned to the SDK.
MrFinish(p) ==
    /\ mrPc[p] = "done"
    /\ mrPc' = [mrPc EXCEPT ![p] = "idle"]
    /\ mrClock' = [mrClock EXCEPT ![p] = 0]
    /\ mrLoop' = [mrLoop EXCEPT ![p] = "none"]
    /\ mrCalls' = [mrCalls EXCEPT ![p] = <<>>]
    /\ mrDiags' = [mrDiags EXCEPT ![p] = <<>>]
    /\ mrBlocked' = [mrBlocked EXCEPT ![p] = FALSE]
    /\ mrId' = [mrId EXCEPT ![p] =
                  IF mrOp[p] = "delete" /\ ~HasError(mrDiags[p]) THEN NoMrId ELSE @]
    /\ mrOp' = [mrOp EXCEPT ![p] = "none"]
    /\ mrChanged' = [mrChanged EXCEPT ![p] = {}]
    /\ UNCHANGED notMr
    /\ UNCHANGED <<mrMutex, mrExists, mrParent, mrStatus, mrFailed>>

\* A handler other than create is called on a resource in state.
MrEnter(p, operation, label, changed) ==
    /\ mrPc[p] = "idle"
    /\ mrId[p] # NoMrId
    /\ mrPc' = [mrPc EXCEPT ![p] = label]
    /\ mrOp' = [mrOp EXCEPT ![p] = operation]
    /\ mrChanged' = [mrChanged EXCEPT ![p] = changed]
    /\ mrCalls' = [mrCalls EXCEPT ![p] = <<>>]
    /\ mrDiags' = [mrDiags EXCEPT ![p] = <<>>]
    /\ UNCHANGED notMr
    /\ UNCHANGED <<mrMutex, mrId, mrClock, mrLoop, mrBlocked, mrParent, mrFailed>>

\* d.IsNewResource(): set by the SDK for the ResourceData create works on.
MrIsNewResource(p) == mrOp[p] = "create"

\* The handler returns ds; it holds no lock.
MrReturnDiags(p, ds) ==
    /\ mrPc' = [mrPc EXCEPT ![p] = "done"]
    /\ mrDiags' = [mrDiags EXCEPT ![p] = ds]
    /\ mrFailed' = [mrFailed EXCEPT ![p] = @ \/ (mrOp[p] = "update" /\ HasError(ds))]

\* resourceMethodResponseRead, lines 133-137.
MrReadStart(p) == MrEnter(p, "read", "read", {}) /\ UNCHANGED <<mrStatus, mrExists>>

\* Answers of GetMethodResponse.
GetMethodResponseResponses(p) ==
    IF mrExists[p] THEN {NoErr, TooManyRequests} ELSE {MethodNotFound, TooManyRequests}

\* Line 145.
MrReadNotFound(p, err) ==
    ~MrIsNewResource(p) /\ ErrCodeEquals(err, ErrCodeNotFoundException)

\* Lines 138-163.
MrRead(p) ==
    /\ mrPc[p] = "read"
    /\ \E resp \in GetMethodResponseResponses(p) :
        /\ MrLog(p, "read", resp)
        /\ IF MrReadNotFound(p, resp)
           THEN /\ mrId' = [mrId EXCEPT ![p] = NoMrId]
                /\ MrReturnDiags(p, <<>>)
           ELSE IF IsErr(resp)
           THEN /\ MrReturnDiags(p, <<ErrorDiag("reading", mrId[p], resp)>>)
                /\ UNCHANGED mrId
           ELSE /\ MrReturnDiags(p, <<>>)
                /\ UNCHANGED mrId
    /\ UNCHANGED notMr
    /\ UNCHANGED <<mrMutex, mrExists, mrClock, mrLoop, mrBlocked, mrParent, mrOp, mrChanged, mrStatus>>

\* resourceMethodResponseUpdate, lines 166-171: the SDK calls update when
\* an attribute without ForceNew differs.
MrUpdateStart(p) ==
    \E changed \in (SUBSET MrUpdatable) \ {{}} : \E status \in MrStatusCodes[p] :
        /\ ("status_code" \in changed) <=> (status # mrStatus[p])
        /\ MrEnter(p, "update", "update", changed)
        /\ mrStatus' = [mrStatus EXCEPT ![p] = status]
        /\ IF status = mrStatus[p]
           THEN UNCHANGED mrExists
           ELSE \E there \in BOOLEAN : mrExists' = [mrExists EXCEPT ![p] = there]

\* Lines 173-180: the patch operations built from the changed maps.
PatchOperations(changed) == changed \cap {"response_models", "response_parameters"}

\* Answers of UpdateMethodResponse.
UpdateMethodResponseResponses(p) ==
    IF mrExists[p] THEN {NoErr, TooManyRequests} ELSE {MethodNotFound}

\* Lines 182-194: UpdateMethodResponse is called with the operations, then
\* the resource is read.
MrUpdate(p) ==
    /\ mrPc[p] = "update"
    /\ \E resp \in UpdateMethodResponseResponses(p) :
        /\ MrLog(p, "update", resp)
        /\ IF IsErr(resp)
           THEN MrReturnDiags(p, <<ErrorDiag("updating", mrId[p], resp)>>)
           ELSE /\ mrPc' = [mrPc EXCEPT ![p] = "read"]
                /\ UNCHANGED <<mrDiags, mrFailed>>
    /\ UNCHANGED notMr
    /\ UNCHANGED <<mrMutex, mrExists, mrId, mrClock, mrLoop, mrBlocked, mrParent, mrOp, mrChanged, mrStatus>>

\* resourceMethodResponseDelete, lines 197-200.
MrDeleteStart(p) == MrEnter(p, "delete", "delete", {}) /\ UNCHANGED <<mrStatus, mrExists>>

\* Answers of DeleteMethodResponse.
DeleteMethodResponseResponses(p) ==
    IF mrExists[p] THEN {NoErr, TooManyRequests} ELSE {MethodNotFound, TooManyRequests}

\* Lines 202-217.
MrDelete(p) ==
    /\ mrPc[p] = "delete"
    /\ \E resp \in DeleteMethodResponseResponses(p) :
        /\ MrLog(p, "delete", resp)
        /\ mrExists' = [mrExists EXCEPT ![p] = @ /\ IsErr(resp)]
        /\ IF ErrCodeEquals(resp, ErrCodeNotFoundException)
           THEN MrReturnDiags(p, <<>>)
           ELSE IF IsErr(resp)
           THEN MrReturnDiags(p, <<ErrorDiag("deleting", mrId[p], resp)>>)
           ELSE MrReturnDiags(p, <<>>)
    /\ UNCHANGED notMr
    /\ UNCHANGED <<mrMutex, mrId, mrClock, mrLoop, mrBlocked, mrParent, mrOp, mrChanged, mrStatus>>

\* Importer.StateContext (lines 31-46) on the identifier
\* REST-API-ID/RESOURCE-ID/HTTP-METHOD/STATUS-CODE of the resource's
\* attributes: the resource comes into state with the importer's identifier.
MrImport(p) ==
    /\ mrPc[p] = "idle"
    /\ mrId[p] = NoMrId
    /\ mrId' = [mrId EXCEPT ![p] =
                  ImportID(MrAttrs(p).rest_api_id, MrAttrs(p).resource_id,
                           MrAttrs(p).http_method, MrAttrs(p).status_code)]
    /\ mrOp' = [mrOp EXCEPT ![p] = "import"]
    /\ mrPc' = [mrPc EXCEPT ![p] = "done"]
    /\ mrCalls' = [mrCalls EXCEPT ![p] = <<>>]
    /\ mrDiags' = [mrDiags EXCEPT ![p] = <<>>]
    /\ mrFailed' = [mrFailed EXCEPT ![p] = FALSE]
    /\ UNCHANGED notMr
    /\ UNCHANGED <<mrMutex, mrExists, mrClock, mrLoop, mrBlocked, mrParent, mrChanged, mrStatus>>

\* The method response is deleted outside Terraform.
MrRemoteDelete(p) ==
    /\ mrExists[p]
    /\ mrExists' = [mrExists EXCEPT ![p] = FALSE]
    /\ UNCHANGED notMr
    /\ UNCHANGED <<mrMutex, mrPc, mrId, mrClock, mrLoop, mrCalls, mrDiags, mrBlocked,
                   mrParent, mrOp, mrChanged, mrStatus, mrFailed>>

MrNext ==
    \E p \in MrProcs :
        \/ MrCreateStart(p)
        \/ MrLock(p)
        \/ MrPutAttempt(p)
        \/ MrPutFinal(p)
        \/ MrCancel(p)
        \/ MrFinish(p)
        \/ MrReadStart(p)
        \/ MrRead(p)
        \/ MrUpdateStart(p)
        \/ MrUpdate(p)
        \/ MrDeleteStart(p)
        \/ MrDelete(p)
        \/ MrRemoteDelete(p)
        \/ MrImport(p)

(***************************************************************************)
(* Part 4: import of a method response                                     *)
(***************************************************************************)

\* The longest import identifier tried.
MaxIdLen == 8

\* The characters identifiers are made of; "/" is the separator.
IdChars == {"a", "b", "/"}

ImportIds == UNION {[1..n -> IdChars] : n \in 0..MaxIdLen}

RECURSIVE Split(_, _)
\* strings.Split(s, sep): the pieces between the separators, empty pieces
\* included; a string without separator is its only piece.
Split(s, sep) ==
    IF \A i \in 1..Len(s) : s[i] # sep
    THEN <<s>>
    ELSE LET i == CHOOSE k \in 1..Len(s) :
                      s[k] = sep /\ \A j \in 1..(k - 1) : s[j] # sep
         IN  <<SubSeq(s, 1, i - 1)>> \o Split(SubSeq(s, i + 1, Len(s)), sep)

NoAttrs == [http_method |-> <<>>, status_code |-> <<>>, resource_id |-> <<>>, rest_api_id |-> <<>>]

ImpInit ==
    /\ impId \in ImportIds
    /\ impAttrs = NoAttrs
    /\ impPc = "start"
    /\ impErr = "nil"

\* No import is under way.
ImpAtRest == ImpInit /\ impId = <<>>

\* The import identifier rejected only for its number of parts.
UnexpectedFormatByCount(idParts) == Len(idParts) # 4

\* Line 33.
UnexpectedFormat(idParts) ==
    \/ Len(idParts) # 4
    \/ idParts[1] = <<>>
    \/ idParts[2] = <<>>
    \/ idParts[3] = <<>>
    \/ idParts[4] = <<>>

\* Lines 31-46: Importer.StateContext.
ImportStateContext ==
    /\ impPc = "start"
    /\ impPc' = "done"
    /\ LET idParts == Split(impId, "/")
       IN  IF UnexpectedFormat(idParts)
           THEN /\ impErr' = "Unexpected format of ID"
                /\ UNCHANGED <<impId, impAttrs>>
           ELSE /\ impErr' = "nil"
                /\ impAttrs' = [http_method |-> idParts[3], status_code |-> idParts[4],
                                resource_id |-> idParts[2], rest_api_id |-> idParts[1]]
                /\ impId' = ImportID(idParts[1], idParts[2], idParts[3], idParts[4])
    /\ UNCHANGED notImp

ImpNext == ImportStateContext

(***************************************************************************)
(* Part 5: the generated list-tags function                                *)
(***************************************************************************)

\* The longest tag list the remote call returns.
MaxTags == 2

TagKeys == {"k1", "k2"}
TagValues == {"v1", "v2"}

\* The service's tag lists: Key/Value entries in the order returned.
RemoteTagLists == UNION {[1..n -> [Key : TagKeys, Value : TagValues]] : n \in 0..MaxTags}

\* The template's .ParentNotFoundErrCode and .ParentNotFoundErrMsg; "" is
\* a value that is not set.
LtConfigs ==
    [code : {"", ErrCodeResourceNotFoundException, ErrCodeNotFoundException},
     msg : {"", "does not exist"}]

\* What conn.ListTagsOp returns: an error, or nil.
LtRemoteErrors ==
    {NoErr} \cup
    {Resp(c, m) : c \in {ErrCodeResourceNotFoundException, ErrCodeNotFoundException,
                         "ThrottlingException"},
                  m \in {"does not exist", "rate exceeded"}}

\* A nil error, a remote error as it came, and a resource.NotFoundError
\* holding the remote error as LastError.
NilError == [notFound |-> FALSE, lastError |-> NoErr]
RemoteError(err) == [notFound |-> FALSE, lastError |-> err]
NotFoundError(err) == [notFound |-> TRUE, lastError |-> err]

\* A nil KeyValueTags and a KeyValueTags holding the key/value pairs kvs.
NilTags == [isNil |-> TRUE, pairs |-> {}]
Tags(kvs) == [isNil |-> FALSE, pairs |-> kvs]

\* tftags.New(nil): a tag set without tags.
NewTags == Tags({})

\* KeyValueTags(output.Tags): one pair per key, the last entry of a key
\* giving its value.
KeyValueTags(list) ==
    Tags({<<list[i].Key, list[i].Value>> : i \in
             {j \in 1..Len(list) : \A k \in (j + 1)..Len(list) : list[k].Key # list[j].Key}})

LtInit ==
    /\ ltConfig \in LtConfigs
    /\ ltRemote = [err |-> NoErr, tags |-> <<>>]
    /\ ltPc = "start"
    /\ ltResult = [tags |-> NilTags, err |-> NilError]

\* The function is not under way and was generated without parent-not-found code.
LtAtRest == LtInit /\ ltConfig = [code |-> "", msg |-> ""]

\* The parent-not-found error recognised by its code alone.
ParentNotFoundByCode(config, err) ==
    config.code # "" /\ ErrCodeEquals(err, config.code)

\* Lines 33-47: the branch the template generates for the configuration,
\* ErrMessageContains when code and message are set, ErrCodeEquals when
\* only the code is set, nothing otherwise.
ParentNotFound(config, err) ==
    IF config.code # "" /\ config.msg # ""
    THEN ErrMessageContains(err, config.code, config.msg)
    ELSE IF config.code # ""
    THEN ErrCodeEquals(err, config.code)
    ELSE FALSE

\* Lines 31-54: the remote call, then the three returns.
ListTags ==
    /\ ltPc = "start"
    /\ ltPc' = "done"
    /\ \E err \in LtRemoteErrors : \E list \in RemoteTagLists :
        /\ ltRemote' = [err |-> err, tags |-> list]
        /\ ltResult' =
              IF ParentNotFound(ltConfig, err)
              THEN [tags |-> NilTags, err |-> NotFoundError(err)]
              ELSE IF IsErr(err)
              THEN [tags |-> NewTags, err |-> RemoteError(err)]
              ELSE [tags |-> KeyValueTags(list), err |-> NilError]
    /\ UNCHANGED ltConfig
    /\ UNCHANGED notLt

LtNext == ListTags

(***************************************************************************)
(* Specifications                                                           *)
(***************************************************************************)

vars == <<vpceVars, paVars, mrVars, impVars, ltVars>>

\* The endpoint part at rest, for the specifications of the other parts.
VpceAtRest ==
    /\ VpceInit
    /\ epExists
    /\ groups = {DefaultSG}
    /\ cfg = [r \in Res |-> [sg |-> "sg-2", replace |-> FALSE]]

\* No method response exists yet; both hang on the same method.
MrAtRest == MrInit /\ mrParent["p2"] = "method-a"

Init == VpceInit /\ PaInit /\ MrAtRest /\ ImpAtRest /\ LtAtRest

SpecVpce == Init /\ [][VpceNext]_vars

SpecVpceSeq == Init /\ [][VpceSeqNext]_vars

InitAtRest == VpceAtRest /\ PaInit /\ MrInit /\ ImpAtRest /\ LtAtRest

SpecPa == InitAtRest /\ [][PaNext]_vars

SpecMr == InitAtRest /\ [][MrNext]_vars

\* The retried calls of both resources. The two resources share no state,
\* so each runs its handlers while the other is between handler calls.
PaIdle == paPc = "idle"
MrIdle == \A p \in MrProcs : mrPc[p] = "idle"

RetryNext ==
    \/ MrIdle /\ PaNext
    \/ PaIdle /\ MrNext

\* Both method responses hang on one method.
InitOneMethod == VpceAtRest /\ PaInit /\ MrAtRest /\ ImpAtRest /\ LtAtRest

SpecRetry == InitOneMethod /\ [][RetryNext]_vars

\* sync.Mutex hands the mutex to a goroutine that keeps waiting for it
\* (starvation mode), and a running retry loop goes on: its call returns
\* and its sleep ends.
MrFairness ==
    \A p \in MrProcs :
        /\ SF_vars(MrLock(p))
        /\ WF_vars(MrPutAttempt(p))
        /\ WF_vars(MrPutFinal(p))

FairSpecMr == InitOneMethod /\ [][MrNext]_vars /\ MrFairness

InitImp == VpceAtRest /\ PaInit /\ MrAtRest /\ ImpInit /\ LtAtRest

SpecImp == InitImp /\ [][ImpNext]_vars

\* The resources share no state: the handlers of one resource type run
\* while the resources of the other types are as they were at the start.
EachNext ==
    \/ PaInit /\ MrInit /\ VpceSeqNext
    \/ PaInit /\ MrInit /\ RemoteDeleteEndpoint
    \/ VpceAtRest /\ MrInit /\ PaNext
    \/ VpceAtRest /\ PaInit /\ MrNext

SpecEach == Init /\ [][EachNext]_vars

InitLt == VpceAtRest /\ PaInit /\ MrAtRest /\ ImpAtRest /\ LtInit

SpecLt == InitLt /\ [][LtNext]_vars

(***************************************************************************)
(* Properties of the VPC endpoint / security group association              *)
(***************************************************************************)

IsAdd(c, sg) == c.kind = "add" /\ c.sg = sg
IsRemove(c, sg) == c.kind = "remove" /\ c.sg = sg

ReplacingCreate(r) == op[r] = "create" /\ cfg[r].replace
ReplacingDelete(r) == op[r] = "delete" /\ cfg[r].replace

\* C1: in a create with replace_default_association, every remove(default)
\* call is preceded by a successful add(new group) call of the same create.
C1_AddBeforeRemove ==
    \A r \in Res : ReplacingCreate(r) =>
        \A j \in 1..Len(calls[r]) :
            IsRemove(calls[r][j], DefaultSG) =>
                \E i \in 1..(j - 1) : IsAdd(calls[r][i], cfg[r].sg) /\ calls[r][i].resp = "ok"

\* A create with replace has issued add(new) and then remove(default).
C1_Witness ==
    \E r \in Res :
        /\ ReplacingCreate(r)
        /\ Len(calls[r]) = 2
        /\ IsAdd(calls[r][1], cfg[r].sg)
        /\ IsRemove(calls[r][2], DefaultSG)

\* The validation of a create with replace is over and did not pass: a
\* finder failed, or the requested group is the default, or the default is
\* not among the associations that were read.
ValidationOverAndFailed(r) ==
    /\ ReplacingCreate(r)
    /\ pc[r] \notin {"idle", "c_findEp", "c_findSG"}
    /\ \/ defSG[r] = ""
       \/ cfg[r].sg = DefaultSG
       \/ DefaultSG \notin epGroups[r]

\* C2: a create with replace whose validation does not pass returns an
\* error, has issued no ModifyVpcEndpoint call and has set no identifier.
C2_ValidationFailsWithoutMutation ==
    \A r \in Res : ValidationOverAndFailed(r) =>
        /\ pc[r] = "done"
        /\ HasError(diags[r])
        /\ calls[r] = <<>>
        /\ id[r] = NoId

\* The endpoint was read, the default group is not associated with it, and
\* create has returned.
C2_Witness ==
    \E r \in Res :
        /\ ValidationOverAndFailed(r)
        /\ defSG[r] = DefaultSG
        /\ cfg[r].sg # DefaultSG
        /\ epGroups[r] # {}
        /\ pc[r] = "done"

\* A create with replace has returned after its add succeeded and the
\* removal of the default was answered with an error that is not ignored.
RemovalFailedAfterAdd(r) ==
    /\ ReplacingCreate(r)
    /\ pc[r] = "done"
    /\ Len(calls[r]) = 2
    /\ calls[r][1].resp = "ok"
    /\ calls[r][2].resp \notin DeleteIgnoredCodes \cup {"ok"}

\* C3 as stated: the removal failure is not fatal, create reports success
\* with the identifier set.
C3_RemovalFailureNonFatal ==
    \A r \in Res : RemovalFailedAfterAdd(r) =>
        /\ id[r] = VPCEndpointSecurityGroupAssociationCreateID(VpcEndpointID, cfg[r].sg)
        /\ ~HasError(diags[r])

\* C3 as amended: the identifier stays set and create returns the removal
\* failure as its only diagnostic, of severity Error.
C3_RemovalFailureReturnedWithId ==
    \A r \in Res : RemovalFailedAfterAdd(r) =>
            /\ id[r] = VPCEndpointSecurityGroupAssociationCreateID(VpcEndpointID, cfg[r].sg)
            /\ Len(diags[r]) = 1
            /\ diags[r][1].severity = "Error"
            /\ diags[r][1].op = "deleting"
            /\ diags[r][1].cause = calls[r][2].resp

\* A replacing create has added its group, failed to remove the default
\* one, and returned.
C3_Witness ==
    \E r \in Res :
        /\ RemovalFailedAfterAdd(r)
        /\ id[r] # NoId
        /\ DefaultSG \in groups

\* C4: while a create or delete with replace runs on an endpoint that had
\* an association when it started, the endpoint has an association.
C4_NeverWithoutAssociation ==
    \A r \in Res :
        (/\ ReplacingCreate(r) \/ ReplacingDelete(r)
         /\ pc[r] # "idle"
         /\ startGroups[r] # {}) => groups # {}

\* A delete with replace that started with the managed group as the only
\* association is about to remove it.
C4_Witness ==
    \E r \in Res :
        /\ ReplacingDelete(r)
        /\ startGroups[r] = {cfg[r].sg}
        /\ pc[r] = "d_remove"
        /\ groups = {cfg[r].sg, DefaultSG}

\* The association a delete is about was gone when the delete started.
AbsentAtStart(r) == ~startExists[r] \/ cfg[r].sg \notin startGroups[r]

\* C5: a delete of an association that is already absent returns success,
\* unless a remote call failed for a reason other than absence.
C5_DeleteOfAbsentSucceeds ==
    \A r \in Res :
        (op[r] = "delete" /\ pc[r] = "done" /\ AbsentAtStart(r) /\ ~fault[r]) =>
            ~HasError(diags[r])

\* C6: in a delete with replace the managed association is removed only
\* after the default was added back; when it was not added back, delete
\* returns an error and has issued no remove.
C6_RestoreBeforeRemove ==
    \A r \in Res : ReplacingDelete(r) =>
        /\ \A j \in 1..Len(calls[r]) :
              calls[r][j].kind = "remove" =>
                  \E i \in 1..(j - 1) : IsAdd(calls[r][i], DefaultSG) /\ calls[r][i].resp = "ok"
        /\ (pc[r] = "done" /\ ~\E i \in 1..Len(calls[r]) : IsAdd(calls[r][i], DefaultSG) /\ calls[r][i].resp = "ok") =>
              /\ HasError(diags[r])
              /\ \A j \in 1..Len(calls[r]) : calls[r][j].kind # "remove"

\* A delete with replace has returned an error after its restore failed.
C6_Witness ==
    \E r \in Res :
        /\ ReplacingDelete(r)
        /\ pc[r] = "done"
        /\ Len(calls[r]) = 1
        /\ IsAdd(calls[r][1], DefaultSG)
        /\ calls[r][1].resp # "ok"

\* A handler of r with replace_default_association has returned no error.
ReplacingSucceeded(r, operation) ==
    /\ op[r] = operation
    /\ cfg[r].replace
    /\ pc[r] = "done"
    /\ ~HasError(diags[r])

\* C22: on an endpoint associated with the default group only, a
\* successful create with replace_default_association for a group G leaves
\* G as the only association, and the successful delete of that resource
\* that follows leaves the default group as the only association again,
\* G not being associated.
C22_ReplaceRoundTrip ==
    \A r \in Res :
        /\ (ReplacingSucceeded(r, "create") /\ startGroups[r] = {DefaultSG}) =>
              groups = {cfg[r].sg}
        /\ (ReplacingSucceeded(r, "delete") /\ startGroups[r] = {cfg[r].sg}
                /\ cfg[r].sg # DefaultSG) =>
              groups = {DefaultSG}

\* A delete with replace that started with G as the only association has
\* returned without error, after the add of the default group and the
\* removal of G.
C22_Witness ==
    \E r \in Res :
        /\ ReplacingSucceeded(r, "delete")
        /\ startGroups[r] = {cfg[r].sg}
        /\ cfg[r].sg # DefaultSG
        /\ Len(calls[r]) = 2
        /\ groups = {DefaultSG}

(***************************************************************************)
(* Properties of the retried calls of the provisioning artifact            *)
(***************************************************************************)

\* The one error configured as transient: InvalidParametersException with
\* the message "profile does not exist".
IsTransient(resp) == resp = ProfileDoesNotExist

IsPermanent(resp) == IsErr(resp) /\ ~IsTransient(resp)

IsTransientPut(resp) == IsErr(resp) /\ resp.code = ErrCodeConflictException

RetryAttemptsOf(api) ==
    {i \in 1..Len(paCalls) : paCalls[i].api = api /\ paCalls[i].phase = "retry"}

FinalAttemptsOf(api) ==
    {i \in 1..Len(paCalls) : paCalls[i].api = api /\ paCalls[i].phase = "final"}

\* The loop around api ran out of time and the handler is past the direct
\* attempt that follows it.
TimedOutAndPastFinal(api) ==
    /\ paLoop[api] = "timedout"
    /\ paPc # PaFinalPc(api)

\* C7: when the retry loop of create or update ran out of time on
\* retryable errors only, exactly one direct attempt of the same call
\* follows, and its result is the call's result: its error is the
\* handler's error, its success lets the handler go on.
C7_OneFinalAttempt ==
    \A api \in PaApis :
        /\ TimedOutAndPastFinal(api) =>
            /\ Cardinality(FinalAttemptsOf(api)) = 1
            /\ \A i \in RetryAttemptsOf(api) :
                /\ IsTransient(paCalls[i].resp)
                /\ \A f \in FinalAttemptsOf(api) : i < f
            /\ \A f \in FinalAttemptsOf(api) :
                IF IsErr(paCalls[f].resp)
                THEN /\ paPc = "done"
                     /\ f = Len(paCalls)
                     /\ paDiags = <<ErrorDiag(PaErrorOp(api), PaErrorId(api), paCalls[f].resp)>>
                ELSE \A k \in 1..Len(paDiags) :
                        paDiags[k].op = PaErrorOp(api) => ~IsErr(paDiags[k].cause)
        /\ paLoop[api] # "timedout" => FinalAttemptsOf(api) = {}

\* The update loop of a create timed out and its direct attempt succeeded:
\* the handler went on to the read.
C7_Witness ==
    /\ paOp = "create"
    /\ TimedOutAndPastFinal("UpdateProvisioningArtifact")
    /\ \E f \in FinalAttemptsOf("UpdateProvisioningArtifact") : ~IsErr(paCalls[f].resp)
    /\ Cardinality(RetryAttemptsOf("UpdateProvisioningArtifact")) >= 2
    /\ paPc = "done"
    /\ paDiags = <<>>

\* The PutMethodResponse attempts among the remote calls of a handler.
PutAttempts(p) == {i \in 1..Len(mrCalls[p]) : mrCalls[p][i].phase \in {"retry", "final"}}

\* A PutMethodResponse attempt of the method response's create answered
\* with an error other than ConflictException is the last one, and its
\* error is the error create returns.
PermanentEndsPutRetry ==
    \A p \in MrProcs : \A i \in PutAttempts(p) :
        (IsErr(mrCalls[p][i].resp) /\ ~IsTransientPut(mrCalls[p][i].resp)) =>
            /\ i = Len(mrCalls[p])
            /\ mrPc[p] = "done"
            /\ HasError(mrDiags[p])
            /\ mrDiags[p][1].cause = mrCalls[p][i].resp

\* The attempts of the retried calls among the artifact's remote calls
\* (the waits and the delete are not retried by the handlers).
PaAttempts == {i \in 1..Len(paCalls) : paCalls[i].api \in PaApis}

\* C8: an attempt answered with an error that is not the retryable one is
\* the last attempt the handler makes, with no direct attempt after it, and
\* the handler returns an error; an attempt of a call is followed by another
\* attempt of that call only when its error was the retryable one. This
\* holds for the provisioning artifact's create and update and for the
\* method response's create.
C8_PermanentEndsRetry ==
    /\ PermanentEndsPutRetry
    /\ \A i \in PaAttempts :
        /\ IsPermanent(paCalls[i].resp) =>
              /\ i = Len(paCalls)
              /\ paPc = "done"
              /\ HasError(paDiags)
        /\ (i < Len(paCalls) /\ paCalls[i + 1].api = paCalls[i].api) =>
              IsTransient(paCalls[i].resp)

\* The first attempt of the artifact's create was answered with the
\* retryable code under another message, and create has returned; a method
\* response had been created before.
C8_Witness ==
    /\ paOp = "create"
    /\ paPc = "done"
    /\ Len(paCalls) = 1
    /\ paCalls[1].resp = InvalidParameters
    /\ \E p \in MrProcs : mrId[p] # NoMrId

\* C9 as stated: no attempt is made once the retry window has elapsed.
C9_NoAttemptAfterDeadline ==
    \A i \in PaAttempts : paCalls[i].at < MaxElapsed

\* C9 as amended: every attempt of the retry loop is made inside the retry
\* window; once the window has elapsed, one more attempt of the call is
\* made, the direct one, and no other.
C9_OnlyFinalAttemptAfterDeadline ==
    /\ \A i \in PaAttempts :
          paCalls[i].at >= MaxElapsed => paCalls[i].phase = "final"
    /\ \A api \in PaApis :
          Cardinality({i \in 1..Len(paCalls) :
                          paCalls[i].api = api /\ paCalls[i].at >= MaxElapsed}) <= 1

\* A direct attempt was made at the deadline, after attempts inside the window.
C9_Witness ==
    \E i \in 1..Len(paCalls) :
        /\ paCalls[i].phase = "final"
        /\ paCalls[i].at = MaxElapsed
        /\ i > 1
        /\ paCalls[i - 1].at < MaxElapsed

(***************************************************************************)
(* Properties of the method response                                        *)
(***************************************************************************)

\* The creates inside the section the mutex protects.
InCriticalSection == {p \in MrProcs : mrPc[p] \in {"put", "put_final"}}

\* At most one create runs its retry sequence, and the mutex is held by
\* exactly the create that does: no create that has ended still holds it.
MutexGuardsRetrySequence ==
    /\ Cardinality(InCriticalSection) <= 1
    /\ \A p \in MrProcs : (mrMutex = p) <=> (p \in InCriticalSection)
    /\ (InCriticalSection = {}) => (mrMutex = "free")

\* C10: method response creates are serialized by one lock held for the
\* whole retry sequence of PutMethodResponse; every way create ends (success,
\* permanent error, retry timeout, cancellation) releases the lock, so a
\* create waiting for the lock eventually enters its own retry sequence.
C10_CreateSerializedAndLockReleased ==
    /\ []MutexGuardsRetrySequence
    /\ \A p \in MrProcs : (mrPc[p] = "lock") ~> (mrPc[p] = "put")

\* A create has ended with an error after its retry loop timed out, and
\* the create that had found the mutex held now runs its retry sequence.
C10_Witness ==
    \E p, q \in MrProcs :
        /\ p # q
        /\ mrPc[p] = "done"
        /\ mrLoop[p] = "timedout"
        /\ HasError(mrDiags[p])
        /\ mrBlocked[q]
        /\ mrPc[q] = "put"
        /\ mrMutex = q

\* C11 as stated: a create is never kept waiting by a create on another
\* parent that is inside its write sequence.
C11_DifferentParentsNeverBlock ==
    \A p, q \in MrProcs :
        (mrParent[p] # mrParent[q] /\ p \in InCriticalSection) => mrPc[q] # "lock"

\* C11: the lock is one process-wide mutex, not one per parent: two creates
\* are never inside their PutMethodResponse sequences together even when
\* their parents differ, and a create that found the mutex held by a create
\* on another parent is not inside its sequence while that create is.
C11_CreatesSerializedAcrossParents ==
    \A p, q \in MrProcs :
        (p # q /\ mrParent[p] # mrParent[q]) =>
            /\ ~(p \in InCriticalSection /\ q \in InCriticalSection)
            /\ (mrMutex = p /\ mrPc[q] = "lock") => ~ENABLED MrLock(q)

\* A create waits at the lock while a create on another parent is in the
\* backoff after a ConflictException.
C11_Witness ==
    \E p, q \in MrProcs :
        /\ mrParent[p] # mrParent[q]
        /\ mrPc[p] = "put"
        /\ Len(mrCalls[p]) >= 1
        /\ IsTransientPut(mrCalls[p][Len(mrCalls[p])].resp)
        /\ mrPc[q] = "lock"
        /\ mrBlocked[q]

\* The handler of r is between its read of the endpoint and its final
\* removal: the read-modify-write sequence of a replacing create or delete.
InWriteWindow(r) ==
    /\ cfg[r].replace
    /\ pc[r] \in {"c_findSG", "c_add", "c_remove", "d_findSG", "d_add", "d_remove"}

\* The ModifyVpcEndpoint calls among the calls of a handler.
Mutations(cs) == SelectSeq(cs, LAMBDA c : c.kind # "read")

\* C12: writers of one endpoint are serialized: while a replacing create
\* or delete is between its read of the endpoint and its final removal, no
\* other resource's handler issues a ModifyVpcEndpoint call on the endpoint.
C12_WritersSerialized ==
    [][\A r, q \in Res :
          (r # q /\ InWriteWindow(r) /\ pc'[r] = pc[r]) =>
              Len(Mutations(calls'[q])) <= Len(Mutations(calls[q]))]_vars

(***************************************************************************)
(* Properties of read                                                       *)
(***************************************************************************)

\* The last remote answer the artifact's handler got, and the method
\* response's.
PaLast == paCalls[Len(paCalls)]
MrLast(p) == mrCalls[p][Len(mrCalls[p])]

\* The handler has returned and the last thing it did was the read of a
\* resource that is not new.
PaReadOver ==
    /\ paPc = "done"
    /\ ~paNew
    /\ Len(paCalls) > 0
    /\ PaLast.api = "WaitProvisioningArtifactReady"

MrReadOver(p) ==
    /\ mrPc[p] = "done"
    /\ Len(mrCalls[p]) > 0
    /\ MrLast(p).phase = "read"

VpceReadOver(r) == op[r] = "read" /\ pc[r] = "done"

VpceLast(r) == calls[r][Len(calls[r])]

\* C13: read of a resource that is not new clears the identifier and
\* returns no error exactly when the remote system reports the resource
\* absent; on any other error it returns that error and keeps the
\* identifier; otherwise it keeps the identifier and returns no error. This
\* holds for the endpoint association, the provisioning artifact and the
\* method response.
C13_ReadPrunesOnNotFoundOnly ==
    /\ \A r \in Res : VpceReadOver(r) =>
          IF VpceLast(r).resp = errNotFound
          THEN id[r] = NoId /\ diags[r] = <<>>
          ELSE IF VpceLast(r).resp # "ok"
          THEN /\ id[r] # NoId
               /\ HasError(diags[r])
               /\ diags[r][1].cause = VpceLast(r).resp
          ELSE id[r] # NoId /\ diags[r] = <<>>
    /\ PaReadOver =>
          IF ErrCodeEquals(PaLast.resp, ErrCodeResourceNotFoundException)
          THEN paId = NoPaId /\ paDiags = <<>>
          ELSE IF IsErr(PaLast.resp)
          THEN /\ paId # NoPaId
               /\ HasError(paDiags)
               /\ paDiags[1].cause = PaLast.resp
          ELSE paId # NoPaId
    /\ \A p \in MrProcs : MrReadOver(p) =>
          IF ErrCodeEquals(MrLast(p).resp, ErrCodeNotFoundException)
          THEN mrId[p] = NoMrId /\ mrDiags[p] = <<>>
          ELSE IF IsErr(MrLast(p).resp)
          THEN /\ mrId[p] # NoMrId
               /\ HasError(mrDiags[p])
               /\ mrDiags[p][1].cause = MrLast(p).resp
          ELSE mrId[p] # NoMrId /\ mrDiags[p] = <<>>

\* The artifact was deleted out of band, and its read has cleared the
\* identifier without an error.
C13_Witness ==
    /\ paOp = "read"
    /\ PaReadOver
    /\ ErrCodeEquals(PaLast.resp, ErrCodeResourceNotFoundException)
    /\ paId = NoPaId
    /\ paDiags = <<>>

(***************************************************************************)
(* Properties of update                                                     *)
(***************************************************************************)

\* C14: update sends only what changed: every attribute in an
\* UpdateProvisioningArtifact request is one that changed, no such request
\* is made when none changed, and UpdateMethodResponse is called only with
\* at least one patch operation.
C14_UpdateSendsOnlyChanges ==
    /\ \A i \in 1..Len(paCalls) :
          paCalls[i].api = "UpdateProvisioningArtifact" =>
              /\ paFields # {}
              /\ paCalls[i].fields \subseteq paFields
    /\ \A p \in MrProcs : \A i \in 1..Len(mrCalls[p]) :
          mrCalls[p][i].phase = "update" => PatchOperations(mrChanged[p]) # {}

\* Every create, import and update of the resource so far has succeeded
\* and no handler is changing it.
MrSettled(p) ==
    /\ mrId[p] # NoMrId
    /\ ~mrFailed[p]
    /\ mrPc[p] \in {"idle", "done"}
    /\ mrOp[p] \in {"none", "create", "import", "update"}
    /\ ~HasError(mrDiags[p])

\* C21: after successful creates, imports and updates of a method
\* response, its identifier is agmr-<rest_api_id>-<resource_id>-
\* <http_method>-<status_code> of its current attribute values, also
\* after an update in place that changed status_code.
C21_IdentifierFollowsAttributes ==
    \A p \in MrProcs : MrSettled(p) =>
        mrId[p] = <<"agmr-">> \o MrAttrs(p).rest_api_id \o <<"-">> \o MrAttrs(p).resource_id
                    \o <<"-">> \o MrAttrs(p).http_method \o <<"-">> \o MrAttrs(p).status_code

(***************************************************************************)
(* Properties of import                                                     *)
(***************************************************************************)

\* The positions of the separator in s.
Separators(s) == {i \in 1..Len(s) : s[i] = "/"}

\* s is four non-empty components separated by "/".
FourComponents(s) ==
    /\ Cardinality(Separators(s)) = 3
    /\ Len(s) > 0
    /\ s[1] # "/"
    /\ s[Len(s)] # "/"
    /\ \A i \in Separators(s) : (i + 1) \notin Separators(s)

\* C15: the importer fails with the unexpected-format error, leaving the
\* identifier and every attribute as they were, whenever the identifier
\* is not four non-empty components separated by "/"; otherwise it
\* succeeds, the components are the four attributes in the order
\* rest_api_id/resource_id/http_method/status_code, and the identifier
\* becomes the agmr- identifier built from them.
C15_ImportDecodes ==
    [][(impPc = "start" /\ impPc' = "done") =>
          IF FourComponents(impId)
          THEN /\ impErr' = "nil"
               /\ impAttrs'.rest_api_id \o <<"/">> \o impAttrs'.resource_id \o <<"/">>
                     \o impAttrs'.http_method \o <<"/">> \o impAttrs'.status_code = impId
               /\ \A a \in DOMAIN impAttrs' : impAttrs'[a] # <<>> /\ Separators(impAttrs'[a]) = {}
               /\ impId' = <<"agmr-">> \o impAttrs'.rest_api_id \o <<"-">> \o impAttrs'.resource_id
                             \o <<"-">> \o impAttrs'.http_method \o <<"-">> \o impAttrs'.status_code
          ELSE /\ impErr' # "nil"
               /\ impId' = impId
               /\ impAttrs' = impAttrs]_vars

\* An identifier of four components of which one is empty was refused.
C15_Witness ==
    /\ impPc = "done"
    /\ impErr # "nil"
    /\ impAttrs = NoAttrs
    /\ Cardinality(Separators(impId)) = 3
    /\ \E i \in Separators(impId) : (i + 1) \in Separators(impId)

\* The position of the n-th separator of s; 0 stands before the first
\* character and Len(s) + 1 after the last.
SeparatorAt(s, n) ==
    IF n = 0 THEN 0
    ELSE IF n > Cardinality(Separators(s)) THEN Len(s) + 1
    ELSE CHOOSE i \in Separators(s) : Cardinality({j \in Separators(s) : j < i}) = n - 1

\* The k-th of the components of s that the separators delimit.
Component(s, k) == SubSeq(s, SeparatorAt(s, k - 1) + 1, SeparatorAt(s, k) - 1)

\* C23: importing a well-formed identifier a/b/c/d sets rest_api_id = a,
\* resource_id = b, http_method = c and status_code = d, and the identifier
\* the importer sets is the one create builds for these four attribute
\* values.
C23_ImportIdIsCreateId ==
    [][(impPc = "start" /\ impPc' = "done" /\ FourComponents(impId)) =>
          /\ impErr' = "nil"
          /\ impAttrs' = [rest_api_id |-> Component(impId, 1),
                          resource_id |-> Component(impId, 2),
                          http_method |-> Component(impId, 3),
                          status_code |-> Component(impId, 4)]
          /\ impId' = CreateID(impAttrs')]_vars

\* An identifier whose resource_id and http_method differ was imported.
C23_Witness ==
    /\ impPc = "done"
    /\ impErr = "nil"
    /\ impAttrs.resource_id # impAttrs.http_method
    /\ impId = CreateID(impAttrs)

(***************************************************************************)
(* Properties of the errors returned                                        *)
(***************************************************************************)

\* The errors the EC2 API and the finders answer with.
VpceRemoteErrors ==
    {errCodeInvalidVPCEndpointIdNotFound, errCodeInvalidGroupNotFound,
     errCodeInvalidParameter, errCodeOther, errNotFound}

\* All diagnostics returned by the handlers that have returned.
VpceDiags == UNION {{diags[r][i] : i \in 1..Len(diags[r])} : r \in Res}
PaDiagSet == {paDiags[i] : i \in 1..Len(paDiags)}
MrDiagSet == UNION {{mrDiags[p][i] : i \in 1..Len(mrDiags[p])} : p \in MrProcs}

CreateAttempts == {i \in 1..Len(paCalls) : paCalls[i].api = "CreateProvisioningArtifact"}

\* C17: all attempts of CreateProvisioningArtifact made by one call of
\* create, those of the retry loop and the direct one after its timeout,
\* carry the idempotency token drawn once before the loop, and at most one
\* of them is answered with success.
C17_OneTokenPerCreate ==
    /\ \A i \in CreateAttempts :
          /\ paCalls[i].token = paToken
          /\ paCalls[i].token # NoToken
    /\ \A i, j \in CreateAttempts : paCalls[i].token = paCalls[j].token
    /\ Cardinality({i \in CreateAttempts : ~IsErr(paCalls[i].resp)}) <= 1

\* Create has retried at least twice and made its direct attempt after
\* the loop timed out.
C17_Witness ==
    /\ paOp = "create"
    /\ Cardinality(RetryAttemptsOf("CreateProvisioningArtifact")) >= 2
    /\ FinalAttemptsOf("CreateProvisioningArtifact") # {}
    /\ \A i \in CreateAttempts : paCalls[i].token = UniqueId

EntriesOf(api) == {i \in 1..Len(paCalls) : paCalls[i].api = api}

\* The call api was answered with success (and a usable output).
Succeeded(api) == \E i \in EntriesOf(api) : paCalls[i].resp = NoErr

\* C18: the artifact's create goes remote create, d.SetId, update, read
\* that waits until ready. The identifier is set exactly once the remote
\* create has succeeded; create returns success only if the remote create,
\* the update and the wait all succeeded; if the update or the wait fails
\* after the remote create succeeded, create returns an error and the
\* identifier stays set.
C18_CreateOrderAndOutcome ==
    paOp = "create" =>
        /\ \A i \in EntriesOf("CreateProvisioningArtifact") :
              \A j \in EntriesOf("UpdateProvisioningArtifact") : i < j
        /\ \A i \in EntriesOf("UpdateProvisioningArtifact") :
              \A j \in EntriesOf("WaitProvisioningArtifactReady") : i < j
        /\ (paId # NoPaId) <=> Succeeded("CreateProvisioningArtifact")
        /\ EntriesOf("UpdateProvisioningArtifact") # {} => paId # NoPaId
        /\ EntriesOf("WaitProvisioningArtifactReady") # {} => Succeeded("UpdateProvisioningArtifact")
        /\ paPc = "done" =>
              /\ (paDiags = <<>>) <=>
                    /\ Succeeded("CreateProvisioningArtifact")
                    /\ Succeeded("UpdateProvisioningArtifact")
                    /\ Succeeded("WaitProvisioningArtifactReady")
              /\ paDiags # <<>> => HasError(paDiags)

\* The remote create and the update succeeded, the wait did not: create
\* has returned an error and the identifier is set.
C18_Witness ==
    /\ paOp = "create"
    /\ paPc = "done"
    /\ Succeeded("CreateProvisioningArtifact")
    /\ Succeeded("UpdateProvisioningArtifact")
    /\ EntriesOf("WaitProvisioningArtifactReady") # {}
    /\ ~Succeeded("WaitProvisioningArtifactReady")
    /\ HasError(paDiags)
    /\ paId # NoPaId

\* C19: the artifact's delete waits for the deletion only after a
\* successful DeleteProvisioningArtifact: on ResourceNotFoundException it
\* returns success without waiting, on any other error of the call it
\* returns that error without waiting, and an error of the wait is
\* returned as an error.
C19_DeleteWaitsOnlyAfterSuccess ==
    paOp = "delete" =>
        /\ Cardinality(EntriesOf("DeleteProvisioningArtifact")) <= 1
        /\ EntriesOf("WaitProvisioningArtifactDeleted") # {} =>
              /\ Succeeded("DeleteProvisioningArtifact")
              /\ \A i \in EntriesOf("DeleteProvisioningArtifact") :
                    \A j \in EntriesOf("WaitProvisioningArtifactDeleted") : i < j
        /\ paPc = "done" =>
              /\ Len(paCalls) > 0
              /\ IF PaLast.api = "DeleteProvisioningArtifact"
                 THEN /\ IsErr(PaLast.resp)
                      /\ IF ErrCodeEquals(PaLast.resp, ErrCodeResourceNotFoundException)
                         THEN paDiags = <<>>
                         ELSE /\ HasError(paDiags)
                              /\ paDiags[1].cause = PaLast.resp
                 ELSE /\ PaLast.api = "WaitProvisioningArtifactDeleted"
                      /\ IF IsErr(PaLast.resp)
                         THEN /\ HasError(paDiags)
                              /\ paDiags[1].cause = PaLast.resp
                         ELSE paDiags = <<>>

\* The artifact was already gone: delete has returned success after the
\* one call, without waiting.
C19_Witness ==
    /\ paOp = "delete"
    /\ paPc = "done"
    /\ Len(paCalls) = 1
    /\ ErrCodeEquals(paCalls[1].resp, ErrCodeResourceNotFoundException)
    /\ paDiags = <<>>

(***************************************************************************)
(* Properties of the read of a new resource                                 *)
(***************************************************************************)

\* The artifact's handler has returned after a wait that reported absence.
PaWaitFoundNothing ==
    /\ paPc = "done"
    /\ Len(paCalls) > 0
    /\ PaLast.api = "WaitProvisioningArtifactReady"
    /\ ErrCodeEquals(PaLast.resp, ErrCodeResourceNotFoundException)

\* C20: when the read that ends a create finds the resource absent, the
\* identifier stays set and create returns the not-found error; a handler
\* clears the identifier on absence only when the resource is not new. For
\* the endpoint association and the artifact, whose create ends with a
\* read; the method response's create has none, and its read never runs
\* on a new resource.
C20_NewResourceNotFoundIsError ==
    /\ \A r \in Res : (op[r] = "create" /\ pc[r] = "done") =>
          /\ (Len(calls[r]) > 0 /\ calls[r][1].resp = "ok") => id[r] # NoId
          /\ (Len(calls[r]) > 0 /\ VpceLast(r).kind = "read" /\ VpceLast(r).resp = errNotFound) =>
                /\ id[r] # NoId
                /\ HasError(diags[r])
                /\ diags[r][1].cause = errNotFound
    /\ (paNew /\ PaWaitFoundNothing) =>
          /\ paId # NoPaId
          /\ HasError(paDiags)
          /\ paDiags[1].cause = PaLast.resp
    /\ (paOp \in {"read", "update"} /\ paId = NoPaId) => (~paNew /\ PaWaitFoundNothing)
    /\ \A p \in MrProcs :
          /\ mrOp[p] = "create" => \A i \in 1..Len(mrCalls[p]) : mrCalls[p][i].phase # "read"
          /\ (mrOp[p] \in {"read", "update"} /\ mrId[p] = NoMrId) =>
                (MrReadOver(p) /\ ErrCodeEquals(MrLast(p).resp, ErrCodeNotFoundException))

\* The artifact was deleted out of band before the wait that ends create:
\* create has returned the error and the identifier is set.
C20_Witness ==
    /\ paOp = "create"
    /\ paNew
    /\ PaWaitFoundNothing
    /\ paId # NoPaId
    /\ HasError(paDiags)

(***************************************************************************)
(* Properties of the list-tags function                                     *)
(***************************************************************************)

\* The remote error is the parent-not-found error of the configuration:
\* a code is configured and is the error's code, and the configured
\* message, if there is one, is the error's message.
MatchesParentNotFound ==
    /\ ltConfig.code # ""
    /\ ltRemote.err.code = ltConfig.code
    /\ ltConfig.msg # "" => ltRemote.err.msg = ltConfig.msg

\* C24: the list-tags function turns the remote error that matches the
\* configured parent-not-found code, and message when one is configured,
\* into a NotFound error holding the remote error, without a tag set;
\* every other remote error is returned as it came with an empty tag set;
\* tags are returned only when the remote call succeeded, and then they
\* are the tags of the remote output.
C24_ListTagsErrors ==
    ltPc = "done" =>
        /\ IF MatchesParentNotFound
           THEN /\ ltResult.err = [notFound |-> TRUE, lastError |-> ltRemote.err]
                /\ ltResult.tags.isNil
           ELSE IF ltRemote.err.code # ""
           THEN /\ ltResult.err = [notFound |-> FALSE, lastError |-> ltRemote.err]
                /\ ltResult.tags = [isNil |-> FALSE, pairs |-> {}]
           ELSE /\ ltResult.err = NilError
                /\ ~ltResult.tags.isNil
                /\ \A i \in 1..Len(ltRemote.tags) :
                      \E kv \in ltResult.tags.pairs : kv[1] = ltRemote.tags[i].Key
                /\ \A kv \in ltResult.tags.pairs :
                      \E i \in 1..Len(ltRemote.tags) :
                          /\ ltRemote.tags[i].Key = kv[1]
                          /\ ltRemote.tags[i].Value = kv[2]
        /\ ltResult.tags.pairs # {} => ltRemote.err.code = ""

\* With code and message configured, the remote call failed with both and
\* returned tags besides: the function returned the NotFound error and no
\* tag set.
C24_Witness ==
    /\ ltPc = "done"
    /\ ltConfig.msg # ""
    /\ MatchesParentNotFound
    /\ ltRemote.tags # <<>>
    /\ ltResult.err.notFound
    /\ ltResult.tags.isNil

====
